---- MODULE Spec2Model ----
(***************************************************************************)
(* Command / history engine of the floor-plan editor.                      *)
(*                                                                         *)
(* The Project is one mutable aggregate: the walls and openings arrays of   *)
(* its levels hold references to entity objects, and the commands hold      *)
(* references to the same objects.  The heap maps a reference to the        *)
(* object's current fields, so an in-place Object.assign is seen by every   *)
(* holder of the reference.                                                 *)
(***************************************************************************)
EXTENDS Integers, Sequences, FiniteSets, TLC

VARIABLES
  heap,          \* entity objects: reference (index) -> fields
  project,       \* [levels |-> sequence of [walls, openings]] holding references
  history,       \* CommandHistory.history
  currentIndex,  \* CommandHistory.currentIndex (0-based, -1 = nothing applied)
  maxSize,       \* CommandHistory.maxSize
  pending,       \* command objects constructed and not yet handed to the history
  nextCid,       \* identity given to the next constructed command object
  lastOp,        \* observation of the last operation: name, result, delegated calls
  discarded,     \* identities of the commands the history has dropped
  law,           \* position in the undo-N / redo-N scenario
  cmdPc,         \* a command driven directly, without a history: idle, executed, undone
  pre,           \* heap and project when that command was first executed
  store          \* the editor store: tool, selection, drawing point, settings, clipboard

vars == <<heap, project, history, currentIndex, maxSize, pending, nextCid,
          lastOp, discarded, law, cmdPc, pre, store>>

histVars == <<history, currentIndex, maxSize, discarded>>
cmdVars == <<cmdPc, pre, store>>

(***************************************************************************)
(* Bounds of the exploration.                                              *)
(***************************************************************************)
MaxCmds == 3       \* command objects constructed in one run of the history
MaxMaxSize == 2    \* largest maxSize a CommandHistory is constructed with
MaxWalls == 2      \* walls of the level a directly driven command starts from
MaxOpenings == 2   \* openings of that level

(***************************************************************************)
(* Entities.                                                               *)
(***************************************************************************)
Point(x, y) == [x |-> x, y |-> y]

Wall(id, a, b, thicknessMm, heightMm) ==
  [id |-> id, a |-> a, b |-> b, thicknessMm |-> thicknessMm, heightMm |-> heightMm]

Opening(id, wallId, type, offsetMm, widthMm, heightMm, sillHeightMm) ==
  [id |-> id, wallId |-> wallId, type |-> type, offsetMm |-> offsetMm,
   widthMm |-> widthMm, heightMm |-> heightMm, sillHeightMm |-> sillHeightMm]

\* a Level with its id, and the single level createEmptyProject makes ('l1')
LevelOf(id, walls, openings) == [id |-> id, walls |-> walls, openings |-> openings]

Level(walls, openings) == LevelOf("l1", walls, openings)

\* Object.assign(target, source): shallow merge of the fields source has.
ObjectAssign(target, source) ==
  [f \in DOMAIN target |-> IF f \in DOMAIN source THEN source[f] ELSE target[f]]

\* project.levels[levelIndex] is defined
HasLevel(p, levelIndex) == (levelIndex + 1) \in DOMAIN p.levels

\* Array.prototype.findIndex on an array of references, by entity id.
\* 0-based like the source; -1 when no element matches.
RECURSIVE FindFrom(_, _, _, _)
FindFrom(h, arr, id, i) ==
  IF i > Len(arr) THEN -1
  ELSE IF h[arr[i]].id = id THEN i - 1
  ELSE FindFrom(h, arr, id, i + 1)

findIndex(h, arr, id) == FindFrom(h, arr, id, 1)

\* arr.splice(index, 1)
spliceOut(arr, index) ==
  SubSeq(arr, 1, index) \o SubSeq(arr, index + 2, Len(arr))

\* arr.splice(index, 0, item)
spliceIn(arr, index, item) ==
  SubSeq(arr, 1, index) \o <<item>> \o SubSeq(arr, index + 1, Len(arr))

\* the project with all references replaced by the objects' fields
\* (what a deep-equality comparison of two Projects looks at)
DeepLevel(h, lv) ==
  [id |-> lv.id,
   walls |-> [i \in DOMAIN lv.walls |-> h[lv.walls[i]]],
   openings |-> [i \in DOMAIN lv.openings |-> h[lv.openings[i]]]]

Deep(h, p) == [i \in DOMAIN p.levels |-> DeepLevel(h, p.levels[i])]

St(h, p) == [heap |-> h, project |-> p]

WithWalls(p, levelIndex, walls) ==
  [p EXCEPT !.levels[levelIndex + 1].walls = walls]

WithOpenings(p, levelIndex, openings) ==
  [p EXCEPT !.levels[levelIndex + 1].openings = openings]

(***************************************************************************)
(* Command objects.  Every command is one record; the fields a class does  *)
(* not have keep their neutral value.                                      *)
(***************************************************************************)
NoProps == [f \in {} |-> 0]

NoCmd == [cid |-> 0, kind |-> "none", levelIndex |-> 0, entity |-> 0, entityId |-> "",
          originalIndex |-> -1, oldProperties |-> NoProps, newProperties |-> NoProps,
          oldOffset |-> 0, newOffset |-> 0, throws |-> {}]

\* a constructor's outcome: the object, or the throw
Made(c) == [threw |-> FALSE, cmd |-> c]
Threw == [threw |-> TRUE, cmd |-> NoCmd]

\* --- AddWallCommand ------------------------------------------------------
AddWallCommand(cid, wall, h, p, levelIndex) ==
  Made([NoCmd EXCEPT !.cid = cid, !.kind = "AddWall", !.entity = wall,
                     !.levelIndex = levelIndex])

AddWallCommand_throws(c, h, p) == ~HasLevel(p, c.levelIndex)

AddWallCommand_execute(c, h, p) ==
  St(h, WithWalls(p, c.levelIndex, Append(p.levels[c.levelIndex + 1].walls, c.entity)))

AddWallCommand_undo(c, h, p) ==
  LET walls == p.levels[c.levelIndex + 1].walls
      index == findIndex(h, walls, h[c.entity].id)
  IN IF index # -1 THEN St(h, WithWalls(p, c.levelIndex, spliceOut(walls, index)))
     ELSE St(h, p)

\* --- AddOpeningCommand ---------------------------------------------------
AddOpeningCommand(cid, opening, h, p, levelIndex) ==
  Made([NoCmd EXCEPT !.cid = cid, !.kind = "AddOpening", !.entity = opening,
                     !.levelIndex = levelIndex])

AddOpeningCommand_throws(c, h, p) == ~HasLevel(p, c.levelIndex)

AddOpeningCommand_execute(c, h, p) ==
  St(h, WithOpenings(p, c.levelIndex,
                     Append(p.levels[c.levelIndex + 1].openings, c.entity)))

AddOpeningCommand_undo(c, h, p) ==
  LET openings == p.levels[c.levelIndex + 1].openings
      index == findIndex(h, openings, h[c.entity].id)
  IN IF index # -1 THEN St(h, WithOpenings(p, c.levelIndex, spliceOut(openings, index)))
     ELSE St(h, p)

\* --- RemoveWallCommand ---------------------------------------------------
RemoveWallCommand(cid, wallId, h, p, levelIndex) ==
  IF ~HasLevel(p, levelIndex) THEN Threw
  ELSE LET walls == p.levels[levelIndex + 1].walls
           index == findIndex(h, walls, wallId)
       IN IF index = -1 THEN Threw
          ELSE Made([NoCmd EXCEPT !.cid = cid, !.kind = "RemoveWall",
                                  !.levelIndex = levelIndex,
                                  !.entity = walls[index + 1],
                                  !.originalIndex = index])

\* execute() that also removes the openings standing on the wall
RemoveWallCommand_execute_Cascade(c, h, p) ==
  LET walls == p.levels[c.levelIndex + 1].walls
      openings == p.levels[c.levelIndex + 1].openings
      index == findIndex(h, walls, h[c.entity].id)
  IN IF index # -1
     THEN St(h, WithOpenings(WithWalls(p, c.levelIndex, spliceOut(walls, index)),
                             c.levelIndex,
                             SelectSeq(openings,
                                       LAMBDA r : h[r].wallId # h[c.entity].id)))
     ELSE St(h, p)

RemoveWallCommand_execute(c, h, p) ==
  LET walls == p.levels[c.levelIndex + 1].walls
      index == findIndex(h, walls, h[c.entity].id)
  IN IF index # -1 THEN St(h, WithWalls(p, c.levelIndex, spliceOut(walls, index)))
     ELSE St(h, p)

\* undo() that always appends the wall
RemoveWallCommand_undo_Push(c, h, p) ==
  LET walls == p.levels[c.levelIndex + 1].walls
  IN St(h, WithWalls(p, c.levelIndex, Append(walls, c.entity)))

RemoveWallCommand_undo(c, h, p) ==
  LET walls == p.levels[c.levelIndex + 1].walls
  IN IF c.originalIndex <= Len(walls)
     THEN St(h, WithWalls(p, c.levelIndex, spliceIn(walls, c.originalIndex, c.entity)))
     ELSE St(h, WithWalls(p, c.levelIndex, Append(walls, c.entity)))

\* --- RemoveOpeningCommand ------------------------------------------------
RemoveOpeningCommand(cid, openingId, h, p, levelIndex) ==
  IF ~HasLevel(p, levelIndex) THEN Threw
  ELSE LET openings == p.levels[levelIndex + 1].openings
           index == findIndex(h, openings, openingId)
       IN IF index = -1 THEN Threw
          ELSE Made([NoCmd EXCEPT !.cid = cid, !.kind = "RemoveOpening",
                                  !.levelIndex = levelIndex,
                                  !.entity = openings[index + 1],
                                  !.originalIndex = index])

RemoveOpeningCommand_execute(c, h, p) ==
  LET openings == p.levels[c.levelIndex + 1].openings
      index == findIndex(h, openings, h[c.entity].id)
  IN IF index # -1 THEN St(h, WithOpenings(p, c.levelIndex, spliceOut(openings, index)))
     ELSE St(h, p)

RemoveOpeningCommand_undo(c, h, p) ==
  LET openings == p.levels[c.levelIndex + 1].openings
  IN IF c.originalIndex <= Len(openings)
     THEN St(h, WithOpenings(p, c.levelIndex,
                             spliceIn(openings, c.originalIndex, c.entity)))
     ELSE St(h, WithOpenings(p, c.levelIndex, Append(openings, c.entity)))

\* Array.prototype.find by entity id: the reference, or 0 for undefined
find(h, arr, id) ==
  LET index == findIndex(h, arr, id)
  IN IF index = -1 THEN 0 ELSE arr[index + 1]

\* project.levels[levelIndex]?.walls.find(...) and the same for openings
findWall(h, p, levelIndex, id) ==
  IF HasLevel(p, levelIndex) THEN find(h, p.levels[levelIndex + 1].walls, id) ELSE 0

findOpening(h, p, levelIndex, id) ==
  IF HasLevel(p, levelIndex) THEN find(h, p.levels[levelIndex + 1].openings, id) ELSE 0

\* --- UpdateWallCommand ---------------------------------------------------
\* the fields the constructor stores old values of
UpdateWallSnapshot == {"a", "b", "thicknessMm"}

UpdateWallCommand(cid, wallId, newProperties, h, p, levelIndex) ==
  LET wall == findWall(h, p, levelIndex, wallId)
  IN IF wall = 0 THEN Threw
     ELSE Made([NoCmd EXCEPT !.cid = cid, !.kind = "UpdateWall",
                             !.levelIndex = levelIndex, !.entityId = wallId,
                             !.newProperties = newProperties,
                             !.oldProperties =
                               [f \in DOMAIN newProperties \cap UpdateWallSnapshot
                                  |-> h[wall][f]]])

\* execute() that merges into every wall of the level carrying the id
UpdateWallCommand_execute_All(c, h, p) ==
  IF ~HasLevel(p, c.levelIndex) THEN St(h, p)
  ELSE LET walls == p.levels[c.levelIndex + 1].walls
           hit == {walls[i] : i \in {j \in DOMAIN walls : h[walls[j]].id = c.entityId}}
       IN St([r \in DOMAIN h |->
                IF r \in hit THEN ObjectAssign(h[r], c.newProperties) ELSE h[r]], p)

UpdateWallCommand_execute(c, h, p) ==
  LET wall == findWall(h, p, c.levelIndex, c.entityId)
  IN IF wall # 0
     THEN St([h EXCEPT ![wall] = ObjectAssign(h[wall], c.newProperties)], p)
     ELSE St(h, p)

UpdateWallCommand_undo(c, h, p) ==
  LET wall == findWall(h, p, c.levelIndex, c.entityId)
  IN IF wall # 0
     THEN St([h EXCEPT ![wall] = ObjectAssign(h[wall], c.oldProperties)], p)
     ELSE St(h, p)

\* --- UpdateOpeningCommand ------------------------------------------------
UpdateOpeningSnapshot == {"widthMm", "type"}

UpdateOpeningCommand(cid, openingId, newProperties, h, p, levelIndex) ==
  LET opening == findOpening(h, p, levelIndex, openingId)
  IN IF opening = 0 THEN Threw
     ELSE Made([NoCmd EXCEPT !.cid = cid, !.kind = "UpdateOpening",
                             !.levelIndex = levelIndex, !.entityId = openingId,
                             !.newProperties = newProperties,
                             !.oldProperties =
                               [f \in DOMAIN newProperties \cap UpdateOpeningSnapshot
                                  |-> h[opening][f]]])

UpdateOpeningCommand_execute(c, h, p) ==
  LET opening == findOpening(h, p, c.levelIndex, c.entityId)
  IN IF opening # 0
     THEN St([h EXCEPT ![opening] = ObjectAssign(h[opening], c.newProperties)], p)
     ELSE St(h, p)

UpdateOpeningCommand_undo(c, h, p) ==
  LET opening == findOpening(h, p, c.levelIndex, c.entityId)
  IN IF opening # 0
     THEN St([h EXCEPT ![opening] = ObjectAssign(h[opening], c.oldProperties)], p)
     ELSE St(h, p)

\* --- MoveOpeningCommand --------------------------------------------------
\* a constructor that does not check that the opening exists
MoveOpeningCommand_NoCheck(cid, openingId, newOffset, h, p, levelIndex) ==
  LET opening == findOpening(h, p, levelIndex, openingId)
  IN Made([NoCmd EXCEPT !.cid = cid, !.kind = "MoveOpening",
                        !.levelIndex = levelIndex, !.entityId = openingId,
                        !.newOffset = newOffset,
                        !.oldOffset = IF opening = 0 THEN 0 ELSE h[opening].offsetMm])

MoveOpeningCommand(cid, openingId, newOffset, h, p, levelIndex) ==
  LET opening == findOpening(h, p, levelIndex, openingId)
  IN IF opening = 0 THEN Threw
     ELSE Made([NoCmd EXCEPT !.cid = cid, !.kind = "MoveOpening",
                             !.levelIndex = levelIndex, !.entityId = openingId,
                             !.newOffset = newOffset,
                             !.oldOffset = h[opening].offsetMm])

MoveOpeningCommand_execute(c, h, p) ==
  LET opening == findOpening(h, p, c.levelIndex, c.entityId)
  IN IF opening # 0
     THEN St([h EXCEPT ![opening].offsetMm = c.newOffset], p)
     ELSE St(h, p)

\* undo() that writes newOffset again
MoveOpeningCommand_undo_Again(c, h, p) ==
  LET opening == findOpening(h, p, c.levelIndex, c.entityId)
  IN IF opening # 0
     THEN St([h EXCEPT ![opening].offsetMm = c.newOffset], p)
     ELSE St(h, p)

MoveOpeningCommand_undo(c, h, p) ==
  LET opening == findOpening(h, p, c.levelIndex, c.entityId)
  IN IF opening # 0
     THEN St([h EXCEPT ![opening].offsetMm = c.oldOffset], p)
     ELSE St(h, p)

\* --- an implementation of Command outside the library ---------------------
\* The history accepts any object of the Command interface.  This one changes
\* nothing, and those of its methods named in throws throw.
ThrowingCommand(cid, throws) ==
  Made([NoCmd EXCEPT !.cid = cid, !.kind = "Throwing", !.throws = throws])

(***************************************************************************)
(* The Command interface: dynamic dispatch on the object's class.          *)
(***************************************************************************)
\* command.execute() throws (only the Add commands index a level without ?.)
Command_throws(c, h, p) ==
  CASE c.kind = "AddWall" -> AddWallCommand_throws(c, h, p)
    [] c.kind = "AddOpening" -> AddOpeningCommand_throws(c, h, p)
    [] c.kind = "Throwing" -> "execute" \in c.throws
    [] OTHER -> FALSE

\* command.undo() throws
Command_undo_throws(c, h, p) ==
  CASE c.kind = "AddWall" -> AddWallCommand_throws(c, h, p)
    [] c.kind = "AddOpening" -> AddOpeningCommand_throws(c, h, p)
    [] c.kind = "Throwing" -> "undo" \in c.throws
    [] OTHER -> FALSE

\* command.redo() throws
Command_redo_throws(c, h, p) ==
  IF c.kind = "Throwing" THEN "redo" \in c.throws ELSE Command_throws(c, h, p)

Command_execute(c, h, p) ==
  CASE c.kind = "AddWall" -> AddWallCommand_execute(c, h, p)
    [] c.kind = "AddOpening" -> AddOpeningCommand_execute(c, h, p)
    [] c.kind = "RemoveWall" -> RemoveWallCommand_execute(c, h, p)
    [] c.kind = "RemoveOpening" -> RemoveOpeningCommand_execute(c, h, p)
    [] c.kind = "UpdateWall" -> UpdateWallCommand_execute(c, h, p)
    [] c.kind = "UpdateOpening" -> UpdateOpeningCommand_execute(c, h, p)
    [] c.kind = "MoveOpening" -> MoveOpeningCommand_execute(c, h, p)
    [] c.kind = "Throwing" -> St(h, p)

Command_undo(c, h, p) ==
  CASE c.kind = "AddWall" -> AddWallCommand_undo(c, h, p)
    [] c.kind = "AddOpening" -> AddOpeningCommand_undo(c, h, p)
    [] c.kind = "RemoveWall" -> RemoveWallCommand_undo(c, h, p)
    [] c.kind = "RemoveOpening" -> RemoveOpeningCommand_undo(c, h, p)
    [] c.kind = "UpdateWall" -> UpdateWallCommand_undo(c, h, p)
    [] c.kind = "UpdateOpening" -> UpdateOpeningCommand_undo(c, h, p)
    [] c.kind = "MoveOpening" -> MoveOpeningCommand_undo(c, h, p)
    [] c.kind = "Throwing" -> St(h, p)

\* BaseCommand.redo: re-execute
BaseCommand_redo(c, h, p) == Command_execute(c, h, p)

(***************************************************************************)
(* CommandHistory.                                                         *)
(***************************************************************************)
size(hist) == Len(hist)

canUndo(idx) == idx >= 0

canRedo(hist, idx) == idx < Len(hist) - 1

\* execute() that forgets to cut off the commands after the cursor
CommandHistory_execute_NoSlice(hist, idx, ms, c) ==
  LET pushed == Append(hist, c)
  IN IF Len(pushed) > ms
     THEN [history |-> Tail(pushed), currentIndex |-> idx]
     ELSE [history |-> pushed, currentIndex |-> idx + 1]

\* execute() that never evicts
CommandHistory_execute_NoLimit(hist, idx, ms, c) ==
  [history |-> Append(SubSeq(hist, 1, idx + 1), c), currentIndex |-> idx + 1]

\* execute() that advances the cursor also when it evicts
CommandHistory_execute_AlwaysAdvance(hist, idx, ms, c) ==
  LET pushed == Append(SubSeq(hist, 1, idx + 1), c)
  IN IF Len(pushed) > ms
     THEN [history |-> Tail(pushed), currentIndex |-> idx + 1]
     ELSE [history |-> pushed, currentIndex |-> idx + 1]

\* the list and cursor that execute() leaves once command.execute() returned
CommandHistory_execute(hist, idx, ms, c) ==
  LET pushed == Append(SubSeq(hist, 1, idx + 1), c)
  IN IF Len(pushed) > ms
     THEN [history |-> Tail(pushed), currentIndex |-> idx]
     ELSE [history |-> pushed, currentIndex |-> idx + 1]

\* undo() that leaves the cursor where it was
CommandHistory_undo_NoMove(idx) == idx

\* the cursor undo() leaves after command.undo() returned
CommandHistory_undo(idx) == idx - 1

\* the cursor redo() moves to before it calls command.redo()
CommandHistory_redo(idx) == idx + 1

\* what clear() leaves
CommandHistory_clear == [history |-> <<>>, currentIndex |-> -1]

Cids(hist) == {hist[i].cid : i \in DOMAIN hist}

(***************************************************************************)
(* The validator.  An issue is a record of code, severity, entityId and    *)
(* suggestedFix (NoFix where the source sets none); the message text is    *)
(* left out.                                                               *)
(***************************************************************************)
NoFix == [f \in {} |-> 0]

Issue(code, severity, entityId, suggestedFix) ==
  [code |-> code, severity |-> severity, entityId |-> entityId,
   suggestedFix |-> suggestedFix]

\* the largest k with k * k <= n, found by bisection (lo * lo <= n < hi * hi)
RECURSIVE Bisect(_, _, _)
Bisect(n, lo, hi) ==
  IF hi - lo <= 1 THEN lo
  ELSE LET mid == (lo + hi) \div 2
       IN IF mid * mid <= n THEN Bisect(n, mid, hi) ELSE Bisect(n, lo, mid)

\* a power of two whose square is larger than n
RECURSIVE Above(_, _)
Above(n, hi) == IF hi * hi > n THEN hi ELSE Above(n, 2 * hi)

FloorSqrt(n) == Bisect(n, 0, Above(n, 1))

\* calculateDistance: Math.sqrt(dx * dx + dy * dy).  The real number is kept
\* as its integer part and whether it is that integer exactly; for integers
\* n, length < n iff floor < n, and n > length iff n > floor.
calculateDistance(a, b) ==
  LET dx == b.x - a.x
      dy == b.y - a.y
      sq == dx * dx + dy * dy
  IN [floor |-> FloorSqrt(sq), whole |-> FloorSqrt(sq) * FloorSqrt(sq) = sq, sq |-> sq]

\* validateWallLength that rejects a wall of exactly 100 mm
validateWallLength_Inclusive(wall) ==
  LET length == calculateDistance(wall.a, wall.b)
  IN IF length.floor < 100 \/ (length.floor = 100 /\ length.whole)
     THEN << Issue("WALL_TOO_SHORT", "error", wall.id, [action |-> "delete"]) >>
     ELSE IF length.floor < 500
     THEN << Issue("WALL_UNUSUALLY_SHORT", "warning", wall.id, NoFix) >>
     ELSE << >>

validateWallLength(wall) ==
  LET length == calculateDistance(wall.a, wall.b)
  IN IF length.floor < 100
     THEN << Issue("WALL_TOO_SHORT", "error", wall.id, [action |-> "delete"]) >>
     ELSE IF length.floor < 500
     THEN << Issue("WALL_UNUSUALLY_SHORT", "warning", wall.id, NoFix) >>
     ELSE << >>

\* walls.find((w) => w.id === id) on an array of wall objects: the index of
\* the first match, 0 for undefined
RECURSIVE FindWallFrom(_, _, _)
FindWallFrom(walls, id, i) ==
  IF i > Len(walls) THEN 0
  ELSE IF walls[i].id = id THEN i
  ELSE FindWallFrom(walls, id, i + 1)

\* validateOpeningFitsWall that also rejects an opening ending at the wall's end
validateOpeningFitsWall_AtEnd(opening, walls) ==
  LET w == FindWallFrom(walls, opening.wallId, 1)
  IN IF w = 0
     THEN << Issue("WALL_NOT_FOUND", "error", opening.id, [action |-> "delete"]) >>
     ELSE LET wallLength == calculateDistance(walls[w].a, walls[w].b)
              openingEnd == opening.offsetMm + opening.widthMm
          IN IF openingEnd >= wallLength.floor
             THEN << Issue("OPENING_EXCEEDS_WALL", "error", opening.id,
                           [offsetMm |-> [length |-> wallLength,
                                          minus |-> opening.widthMm]]) >>
             ELSE << >>

validateOpeningFitsWall(opening, walls) ==
  LET w == FindWallFrom(walls, opening.wallId, 1)
  IN IF w = 0
     THEN << Issue("WALL_NOT_FOUND", "error", opening.id, [action |-> "delete"]) >>
     ELSE LET wallLength == calculateDistance(walls[w].a, walls[w].b)
              openingEnd == opening.offsetMm + opening.widthMm
          IN IF openingEnd > wallLength.floor
             THEN << Issue("OPENING_EXCEEDS_WALL", "error", opening.id,
                           [offsetMm |-> [length |-> wallLength,
                                          minus |-> opening.widthMm]]) >>
             ELSE << >>

validateOpeningDimensions(opening) ==
  IF opening.type = "door" /\ opening.widthMm < 700
  THEN << Issue("DOOR_TOO_NARROW", "error", opening.id, [widthMm |-> 700]) >>
  ELSE IF opening.type = "door" /\ opening.heightMm < 1800
  THEN << Issue("DOOR_TOO_SHORT", "error", opening.id, [heightMm |-> 1800]) >>
  ELSE IF opening.type = "door" /\ opening.sillHeightMm # 0
  THEN << Issue("DOOR_INVALID_SILL", "error", opening.id, [sillHeightMm |-> 0]) >>
  ELSE IF opening.type = "window" /\ opening.sillHeightMm < 600
  THEN << Issue("WINDOW_SILL_TOO_LOW", "error", opening.id, [sillHeightMm |-> 600]) >>
  ELSE << >>

\* one forEach of validateUniqueIds over the ids of one kind: seen is the Set,
\* out the issues pushed so far
RECURSIVE UniqueFrom(_, _, _, _, _)
UniqueFrom(ids, code, i, seen, out) ==
  IF i > Len(ids) THEN [seen |-> seen, issues |-> out]
  ELSE UniqueFrom(ids, code, i + 1, seen \cup {ids[i]},
                  IF ids[i] \in seen
                  THEN Append(out, Issue(code, "error", ids[i], NoFix))
                  ELSE out)

Ids(entities) == [i \in DOMAIN entities |-> entities[i].id]

\* validateUniqueIds on the levels from index i on, with the three Sets
RECURSIVE UniqueLevelsFrom(_, _, _, _, _, _)
UniqueLevelsFrom(levels, i, levelIds, wallIds, openingIds, out) ==
  IF i > Len(levels) THEN out
  ELSE LET lv == levels[i]
           afterLevel == IF lv.id \in levelIds
                         THEN Append(out, Issue("DUPLICATE_LEVEL_ID", "error", lv.id, NoFix))
                         ELSE out
           ws == UniqueFrom(Ids(lv.walls), "DUPLICATE_WALL_ID", 1, wallIds, afterLevel)
           os == UniqueFrom(Ids(lv.openings), "DUPLICATE_OPENING_ID", 1, openingIds,
                            ws.issues)
       IN UniqueLevelsFrom(levels, i + 1, levelIds \cup {lv.id}, ws.seen, os.seen,
                           os.issues)

\* d is the plain data of a Project: its levels, entities by value
validateUniqueIds(d) == UniqueLevelsFrom(d, 1, {}, {}, {}, << >>)

validateLevelHasWalls(level) ==
  IF Len(level.walls) = 0
  THEN << Issue("EMPTY_LEVEL", "warning", level.id, NoFix) >>
  ELSE << >>

\* the keys of openingsByWall in insertion order: each wallId at its first
\* occurrence in level.openings
RECURSIVE KeysFrom(_, _, _, _)
KeysFrom(h, openings, i, keys) ==
  IF i > Len(openings) THEN keys
  ELSE LET k == h[openings[i]].wallId
       IN KeysFrom(h, openings, i + 1,
                   IF \E j \in DOMAIN keys : keys[j] = k THEN keys ELSE Append(keys, k))

\* openingsByWall.get(wallId): a new array of the level's openings on that wall
GroupOf(h, openings, wallId) ==
  SelectSeq(openings, LAMBDA r : h[r].wallId = wallId)

\* Array.prototype.sort((a, b) => a.offsetMm - b.offsetMm): stable, so an
\* element goes behind every element whose offset is not larger
RECURSIVE SortFrom(_, _, _, _)
SortFrom(h, arr, i, sorted) ==
  IF i > Len(arr) THEN sorted
  ELSE LET r == arr[i]
           before == SelectSeq(sorted, LAMBDA q : h[q].offsetMm <= h[r].offsetMm)
           after == SelectSeq(sorted, LAMBDA q : h[q].offsetMm > h[r].offsetMm)
       IN SortFrom(h, arr, i + 1, before \o <<r>> \o after)

sort(h, arr) == SortFrom(h, arr, 1, << >>)

\* the for loop over the adjacent pairs of one sorted group
RECURSIVE PairsFrom(_, _, _, _)
PairsFrom(h, sorted, i, out) ==
  IF i >= Len(sorted) THEN out
  ELSE LET current == h[sorted[i]]
           next == h[sorted[i + 1]]
           currentEnd == current.offsetMm + current.widthMm
           nextStart == next.offsetMm
       IN PairsFrom(h, sorted, i + 1,
                    IF currentEnd > nextStart
                    THEN Append(out, Issue("OPENINGS_OVERLAP", "error", current.id, NoFix))
                    ELSE out)

\* openingsByWall.forEach over the keys from index k on
RECURSIVE GroupsFrom(_, _, _, _, _)
GroupsFrom(h, openings, keys, k, out) ==
  IF k > Len(keys) THEN out
  ELSE LET group == GroupOf(h, openings, keys[k])
       IN GroupsFrom(h, openings, keys, k + 1,
                     IF Len(group) < 2 THEN out
                     ELSE PairsFrom(h, sort(h, group), 1, out))

\* validateOpeningsNoOverlap(level) that sorts level.openings itself
validateOpeningsNoOverlap_InPlace(h, level) ==
  [issues |-> GroupsFrom(h, level.openings, KeysFrom(h, level.openings, 1, << >>),
                         1, << >>),
   openings |-> sort(h, level.openings)]

\* validateOpeningsNoOverlap(level): the issues it returns and level.openings
\* as the call leaves it (the groups are new arrays and the sort works on a
\* spread copy of a group, so nothing is written to level.openings)
validateOpeningsNoOverlap(h, level) ==
  [issues |-> GroupsFrom(h, level.openings, KeysFrom(h, level.openings, 1, << >>),
                         1, << >>),
   openings |-> level.openings]

\* level.walls.forEach of validateProject
RECURSIVE WallsFrom(_, _, _)
WallsFrom(walls, i, out) ==
  IF i > Len(walls) THEN out
  ELSE WallsFrom(walls, i + 1, out \o validateWallLength(walls[i]))

\* level.openings.forEach of validateProject
RECURSIVE OpeningsFrom(_, _, _, _)
OpeningsFrom(openings, walls, i, out) ==
  IF i > Len(openings) THEN out
  ELSE OpeningsFrom(openings, walls, i + 1,
                    out \o validateOpeningFitsWall(openings[i], walls)
                        \o validateOpeningDimensions(openings[i]))

\* project.levels.forEach of validateProject, from level i on
RECURSIVE LevelsFrom(_, _, _, _)
LevelsFrom(h, p, i, out) ==
  IF i > Len(p.levels) THEN [issues |-> out, project |-> p]
  ELSE LET level == DeepLevel(h, p.levels[i])
           upto == OpeningsFrom(level.openings, level.walls, 1,
                     WallsFrom(level.walls, 1, out \o validateLevelHasWalls(level)))
           overlap == validateOpeningsNoOverlap(h, p.levels[i])
       IN LevelsFrom(h, [p EXCEPT !.levels[i].openings = overlap.openings], i + 1,
                     upto \o overlap.issues)

\* validateProject that runs the unique-ids pass after the levels
validateProject_IdsLast(h, p) ==
  LET r == LevelsFrom(h, p, 1, << >>)
  IN [r EXCEPT !.issues = r.issues \o validateUniqueIds(Deep(h, p))]

\* validateProject(project): the issues, and the project as the call leaves it
validateProject(h, p) == LevelsFrom(h, p, 1, validateUniqueIds(Deep(h, p)))

\* hasErrors(issues)
hasErrors(issues) == \E i \in DOMAIN issues : issues[i].severity = "error"

(***************************************************************************)
(* The schema of the IR.  JSON.stringify writes the integers and strings of *)
(* a Project exactly; the parser checks every field and builds new objects *)
(* of the declared keys.                                                   *)
(***************************************************************************)
\* the strings of the model a pattern ^<letter>[0-9]+$ matches
IdsMatching(letter) ==
  {letter \o d : d \in {"1", "2", "3", "4", "5", "6", "7", "8", "9"}}

Between(n, lo, hi) == lo <= n /\ n <= hi

WallSchema_parse(w) ==
  IF /\ w.id \in IdsMatching("w")
     /\ Between(w.thicknessMm, 100, 500)
     /\ Between(w.heightMm, 1800, 4000)
  THEN << Wall(w.id, Point(w.a.x, w.a.y), Point(w.b.x, w.b.y),
               w.thicknessMm, w.heightMm) >>
  ELSE << >>

OpeningSchema_parse(o) ==
  IF /\ o.id \in IdsMatching("o")
     /\ o.type \in {"door", "window"}
     /\ o.offsetMm >= 0
     /\ Between(o.widthMm, 600, 3000)
     /\ Between(o.heightMm, 600, 2400)
     /\ Between(o.sillHeightMm, 0, 1500)
  THEN << Opening(o.id, o.wallId, o.type, o.offsetMm, o.widthMm, o.heightMm,
                  o.sillHeightMm) >>
  ELSE << >>

\* z.array(schema), given what the schema makes of each element: every
\* element parsed, or nothing
ArraySchema_parse(parsed) ==
  IF \A i \in DOMAIN parsed : parsed[i] # << >>
  THEN << [i \in DOMAIN parsed |-> parsed[i][1]] >>
  ELSE << >>

LevelSchema_parse(level) ==
  LET walls == ArraySchema_parse([i \in DOMAIN level.walls |-> WallSchema_parse(level.walls[i])])
      openings == ArraySchema_parse([i \in DOMAIN level.openings |->
                                    OpeningSchema_parse(level.openings[i])])
  IN IF level.id \in IdsMatching("l") /\ walls # << >> /\ openings # << >>
     THEN << LevelOf(level.id, walls[1], openings[1]) >>
     ELSE << >>

\* validateProjectSchema(JSON.parse(JSON.stringify(project))), on the levels
validateProjectSchema(d) ==
  LET levels == ArraySchema_parse([i \in DOMAIN d |-> LevelSchema_parse(d[i])])
  IN IF Len(d) >= 1 /\ levels # << >>
     THEN [threw |-> FALSE, project |-> levels[1]]
     ELSE [threw |-> TRUE, project |-> << >>]

(***************************************************************************)
(* Geometry derivation.  A derived coordinate is the real number           *)
(* int + num2 / (2 * length), length being the wall's length (the square   *)
(* root of sq); the source computes its nearest double.                    *)
(***************************************************************************)
Coord(int, num2, sq) == [int |-> int, num2 |-> num2, sq |-> sq]

\* what a division 0 / 0 or a product 0 * Infinity yields
NaN == Coord(0, 0, -1)

\* getPointAlongWall(wall, distanceMm), given twice the distance
getPointAlongWall(wall, twiceDistanceMm) ==
  LET dx == wall.b.x - wall.a.x
      dy == wall.b.y - wall.a.y
      sq == dx * dx + dy * dy
  IN IF sq = 0
     THEN [x |-> Coord(wall.a.x, 0, 0), y |-> Coord(wall.a.y, 0, 0)]
     ELSE [x |-> Coord(wall.a.x, dx * twiceDistanceMm, sq),
           y |-> Coord(wall.a.y, dy * twiceDistanceMm, sq)]

\* getPerpendicular without the test of the length: -dy / length and
\* dx / length are 0 / 0 on a wall of length 0
getPerpendicular_NoGuard(from, to, twiceDistance) ==
  LET dx == to.x - from.x
      dy == to.y - from.y
      sq == dx * dx + dy * dy
  IN IF sq = 0
     THEN [x |-> NaN, y |-> NaN]
     ELSE [x |-> Coord(0, (0 - dy) * twiceDistance, sq),
           y |-> Coord(0, dx * twiceDistance, sq)]

\* getPerpendicular(from, to, distance), given twice the distance
getPerpendicular(from, to, twiceDistance) ==
  LET dx == to.x - from.x
      dy == to.y - from.y
      sq == dx * dx + dy * dy
  IN IF sq = 0
     THEN [x |-> Coord(0, 0, 0), y |-> Coord(0, 0, 0)]
     ELSE [x |-> Coord(0, (0 - dy) * twiceDistance, sq),
           y |-> Coord(0, dx * twiceDistance, sq)]

\* the point p + sign * offset
Shifted(p, sign, offset) ==
  [x |-> IF NaN \in {p.x, offset.x} THEN NaN
         ELSE Coord(p.x.int + sign * offset.x.int, p.x.num2 + sign * offset.x.num2,
                    IF p.x.sq = 0 THEN offset.x.sq ELSE p.x.sq),
   y |-> IF NaN \in {p.y, offset.y} THEN NaN
         ELSE Coord(p.y.int + sign * offset.y.int, p.y.num2 + sign * offset.y.num2,
                    IF p.y.sq = 0 THEN offset.y.sq ELSE p.y.sq)]

\* an IR point as a derived one
Fixed(p) == [x |-> Coord(p.x, 0, 0), y |-> Coord(p.y, 0, 0)]

deriveWallGeometry(wall) ==
  LET offset == getPerpendicular(wall.a, wall.b, wall.thicknessMm)
  IN [wallId |-> wall.id,
      outline |-> [points |-> << Shifted(Fixed(wall.a), 1, offset),
                                 Shifted(Fixed(wall.b), 1, offset),
                                 Shifted(Fixed(wall.b), -1, offset),
                                 Shifted(Fixed(wall.a), -1, offset) >>],
      centerline |-> [start |-> wall.a, end |-> wall.b],
      thickness |-> wall.thicknessMm]

\* walls.map(deriveWallGeometry)
deriveWallsGeometry(walls) == [i \in DOMAIN walls |-> deriveWallGeometry(walls[i])]

deriveOpeningGeometry(opening, wall) ==
  LET centerPoint == getPointAlongWall(wall, 2 * opening.offsetMm + opening.widthMm)
      startPoint == getPointAlongWall(wall, 2 * opening.offsetMm)
      endPoint == getPointAlongWall(wall, 2 * (opening.offsetMm + opening.widthMm))
      perpOffset == getPerpendicular(wall.a, wall.b, wall.thicknessMm)
  IN [openingId |-> opening.id,
      wallId |-> opening.wallId,
      type |-> opening.type,
      rectangle |-> [topLeft |-> Shifted(startPoint, 1, perpOffset),
                     topRight |-> Shifted(endPoint, 1, perpOffset),
                     bottomRight |-> Shifted(endPoint, -1, perpOffset),
                     bottomLeft |-> Shifted(startPoint, -1, perpOffset)],
      width |-> opening.widthMm,
      position |-> centerPoint]

\* a derivation that leaves the openings without a wall out instead of throwing
deriveOpeningsGeometry_Skip(openings, walls) ==
  LET found == SelectSeq(openings, LAMBDA o : FindWallFrom(walls, o.wallId, 1) # 0)
  IN [threw |-> FALSE,
      geometry |-> [i \in DOMAIN found |->
                      deriveOpeningGeometry(found[i],
                        walls[FindWallFrom(walls, found[i].wallId, 1)])]]

\* deriveOpeningsGeometry(openings, walls): throws at the first opening whose
\* wall is not in the list
deriveOpeningsGeometry(openings, walls) ==
  IF \E i \in DOMAIN openings : FindWallFrom(walls, openings[i].wallId, 1) = 0
  THEN [threw |-> TRUE, geometry |-> << >>]
  ELSE [threw |-> FALSE,
        geometry |-> [i \in DOMAIN openings |->
                        deriveOpeningGeometry(openings[i],
                          walls[FindWallFrom(walls, openings[i].wallId, 1)])]]

(***************************************************************************)
(* The editor store.  Its project field is the Project itself (heap and    *)
(* project); the other fields make up the record held in store.  null and  *)
(* undefined are records of their own.                                     *)
(***************************************************************************)
Null == [type |-> "null"]
Undefined == [type |-> "undefined"]

DEFAULT_WALL_THICKNESS == 200
DEFAULT_DOOR_WIDTH == 900

initialState ==
  [currentTool |-> "select", selectedElement |-> Null, drawingStartPoint |-> Null,
   wallThickness |-> DEFAULT_WALL_THICKNESS, openingWidth |-> DEFAULT_DOOR_WIDTH,
   nextOpeningType |-> "door", clipboard |-> Null]

SelectedElement(type, id, levelIndex) == [type |-> type, id |-> id, levelIndex |-> levelIndex]

\* a value an if (...) takes for true
Truthy(v) == v \notin {Null, Undefined}

\* set(partial): the store merges the fields partial has into its state, a
\* field holding undefined included
set(state, partial) == ObjectAssign(state, partial)

setCurrentTool(state, currentTool) ==
  set(state, [currentTool |-> currentTool,
              drawingStartPoint |-> Null,
              selectedElement |-> IF currentTool # "select" THEN Null ELSE Undefined])

selectElement(state, selectedElement) == set(state, [selectedElement |-> selectedElement])

setDrawingStartPoint(state, drawingStartPoint) ==
  set(state, [drawingStartPoint |-> drawingStartPoint])

\* the entity of the array carrying the id: array.find(e => e.id === id)
FoundIn(entities, id) ==
  LET hits == {i \in DOMAIN entities : entities[i].id = id}
  IN IF hits = {} THEN Undefined ELSE entities[CHOOSE i \in hits : \A j \in hits : i <= j]

\* copySelected: the new state
copySelected(state, d) ==
  IF ~Truthy(state.selectedElement) THEN state
  ELSE IF (state.selectedElement.levelIndex + 1) \notin DOMAIN d THEN state
  ELSE LET level == d[state.selectedElement.levelIndex + 1]
           found == FoundIn(IF state.selectedElement.type = "wall" THEN level.walls
                            ELSE level.openings, state.selectedElement.id)
       IN IF found = Undefined THEN state
          ELSE set(state, [clipboard |-> [type |-> state.selectedElement.type,
                                          data |-> found]])

\* the wall a paste or a duplication makes of a wall: a new id, and both ends
\* moved by 1000 mm
Moved(wall, id) ==
  [wall EXCEPT !.id = id,
               !.a = Point(wall.a.x + 1000, wall.a.y + 1000),
               !.b = Point(wall.b.x + 1000, wall.b.y + 1000)]

\* what pasteFromClipboard and duplicateSelected return when they push entity
\* onto the array of the level: the grown Project and the new state
Pushed(state, h, p, type, levelIndex, entity) ==
  [heap |-> Append(h, entity),
   project |-> IF type = "wall"
               THEN WithWalls(p, levelIndex,
                              Append(p.levels[levelIndex + 1].walls, Len(h) + 1))
               ELSE WithOpenings(p, levelIndex,
                                 Append(p.levels[levelIndex + 1].openings, Len(h) + 1)),
   state |-> set(state, [selectedElement |-> SelectedElement(type, entity.id, levelIndex)])]

Kept(state, h, p) == [heap |-> h, project |-> p, state |-> state]

\* pasteFromClipboard, createId() returning id
pasteFromClipboard(state, h, p, id) ==
  IF state.clipboard = Null THEN Kept(state, h, p)
  ELSE IF state.clipboard.type = "wall"
  THEN Pushed(state, h, p, "wall", 0, Moved(state.clipboard.data, id))
  ELSE Pushed(state, h, p, "opening", 0, [state.clipboard.data EXCEPT !.id = id])

\* duplicateSelected, createId() returning id
duplicateSelected(state, h, p, id) ==
  IF ~Truthy(state.selectedElement) THEN Kept(state, h, p)
  ELSE IF ~HasLevel(p, state.selectedElement.levelIndex) THEN Kept(state, h, p)
  ELSE LET sel == state.selectedElement
           level == DeepLevel(h, p.levels[sel.levelIndex + 1])
           found == FoundIn(IF sel.type = "wall" THEN level.walls ELSE level.openings,
                            sel.id)
       IN IF found = Undefined THEN Kept(state, h, p)
          ELSE IF sel.type = "wall"
          THEN Pushed(state, h, p, "wall", sel.levelIndex, Moved(found, id))
          ELSE Pushed(state, h, p, "opening", sel.levelIndex, [found EXCEPT !.id = id])

(***************************************************************************)
(* Observation of one operation: its name, the boolean it returned, the    *)
(* command methods it delegated to, and whether it threw.                  *)
(***************************************************************************)
Call(c, method) == <<c.cid, method>>

\* the arguments of a constructor call: class, entity id, levelIndex
Req(kind, id, levelIndex) == [kind |-> kind, id |-> id, levelIndex |-> levelIndex]

NoReq == Req("none", "", 0)

Op(name, ret, calls, threw) ==
  [op |-> name, ret |-> ret, calls |-> calls, threw |-> threw, cut |-> 0, evicted |-> 0,
   req |-> NoReq, arg |-> << >>, issues |-> << >>, nth |-> 0, result |-> << >>]

\* this step is a call of the named operation
Step(name) == lastOp'.op = name

\* an execute() that returned: how many commands after the cursor it cut off,
\* and how many it evicted at the front
Executed(c, hist, idx, nh) ==
  [Op("execute", FALSE, <<Call(c, "execute")>>, FALSE)
     EXCEPT !.cut = Len(hist) - (idx + 1),
            !.evicted = (idx + 2) - Len(nh.history)]

\* the undo-N / redo-N scenario: N executions, then N undo(), then N redo()
\* (clash: some executed Add command added an entity whose id an entity of the
\* target array already carried)
\* Beside it runs the snapshot history of the design document, which keeps
\* the whole Project after every execution (strayed: a command was executed
\* that was not constructed just before, or clear() was called).
Law(phase, n, k, snap) ==
  [phase |-> phase, n |-> n, k |-> k, snap |-> snap, clash |-> FALSE,
   manager |-> [history |-> << >>, index |-> 0], strayed |-> FALSE]

\* createHistoryManager(initialProject)
createHistoryManager(initialProject) == [history |-> <<initialProject>>, index |-> 0]

\* pushHistory(manager, project)
pushHistory(manager, d) ==
  LET newHistory == SubSeq(manager.history, 1, manager.index + 1)
  IN [history |-> Append(newHistory, d), index |-> Len(newHistory)]

\* undo(manager).manager
HistoryManager_undo(manager) ==
  IF manager.index = 0 THEN manager ELSE [manager EXCEPT !.index = manager.index - 1]

\* redo(manager).manager
HistoryManager_redo(manager) ==
  IF manager.index >= Len(manager.history) - 1 THEN manager
  ELSE [manager EXCEPT !.index = manager.index + 1]

NoSnap == <<>>

Free == Law("free", 0, 0, NoSnap)

(***************************************************************************)
(* Inputs of the history runs.                                             *)
(***************************************************************************)
P0 == Point(0, 0)
P1 == Point(5000, 0)
P2 == Point(0, 4000)

\* entity objects a caller adds; each id is also carried by an entity of the
\* loaded project with other field values, and the two walls share their id
NewWalls ==
  { Wall("w1", P0, P1, 200, 2700),
    Wall("w1", P0, P2, 150, 2700) }

NewOpenings ==
  { Opening("o1", "w2", "window", 2000, 1200, 1200, 900) }

WallIds == {"w1", "w2"}
OpeningIds == {"o1"}

\* partial updates: one field the constructor snapshots and one it does not
WallUpdates == { [thicknessMm |-> 300, heightMm |-> 3000] }
OpeningUpdates == { [widthMm |-> 1200, sillHeightMm |-> 600] }
NewOffsets == { 2500 }

\* the inputs of a free editing session
SessionWalls == { Wall("w1", P0, P2, 150, 2700) }
SessionOpenings == NewOpenings
SessionWallIds == {"w1"}

\* levelIndex arguments: every level of the project and one past the end
LevelIndexes(p) == 0 .. Len(p.levels)

\* a Project as loaded: fresh objects for its entities, arrays of references
RECURSIVE LoadFrom(_, _, _, _)
LoadFrom(deep, i, h, lvls) ==
  IF i > Len(deep) THEN St(h, [levels |-> lvls])
  ELSE LET nw == Len(deep[i].walls)
           no == Len(deep[i].openings)
       IN LoadFrom(deep, i + 1, h \o deep[i].walls \o deep[i].openings,
                   Append(lvls, LevelOf(deep[i].id,
                                        [j \in 1..nw |-> Len(h) + j],
                                        [j \in 1..no |-> Len(h) + nw + j])))

Load(deep) == LoadFrom(deep, 1, <<>>, <<>>)

\* createEmptyProject: one level, no walls, no openings
EmptyProject == << Level(<<>>, <<>>) >>

\* projects an editing session starts from
StartProjects ==
  { EmptyProject,
    << Level(<< Wall("w1", P0, P1, 200, 2700), Wall("w2", P0, P2, 200, 2700) >>,
             << Opening("o1", "w1", "door", 1000, 900, 2100, 0) >>) >> }

SessionProjects ==
  { EmptyProject,
    << Level(<< Wall("w1", P0, P1, 200, 2700) >>,
             << Opening("o1", "w1", "door", 1000, 900, 2100, 0) >>) >> }

(***************************************************************************)
(* Operations of an editing session.                                       *)
(***************************************************************************)
\* A caller constructs a command object.  r is the constructor's outcome,
\* h the heap once the caller's own entity object (if any) exists, room whether
\* the caller may hold one more command before executing those it holds.
Constructed(req, r, h, room) ==
  /\ law.phase \in {"free", "exec"}
  /\ nextCid <= MaxCmds
  /\ room
  /\ IF r.threw
     THEN /\ lastOp' = [Op("new", FALSE, <<>>, TRUE) EXCEPT !.req = req]
          /\ UNCHANGED <<heap, pending, nextCid>>
     ELSE /\ lastOp' = [Op("new", TRUE, <<>>, FALSE) EXCEPT !.req = req]
          /\ heap' = h
          /\ pending' = Append(pending, r.cmd)
          /\ nextCid' = nextCid + 1
  /\ UNCHANGED <<project, histVars, law, cmdVars>>

new_AddWallCommand(walls, room) ==
  \E w \in walls, li \in LevelIndexes(project) :
    Constructed(Req("AddWall", w.id, li),
                AddWallCommand(nextCid, Len(heap) + 1, Append(heap, w), project, li),
                Append(heap, w), room)

new_AddOpeningCommand(openings, room) ==
  \E o \in openings, li \in LevelIndexes(project) :
    Constructed(Req("AddOpening", o.id, li),
                AddOpeningCommand(nextCid, Len(heap) + 1, Append(heap, o), project, li),
                Append(heap, o), room)

new_RemoveWallCommand(ids, room) ==
  \E id \in ids, li \in LevelIndexes(project) :
    Constructed(Req("RemoveWall", id, li),
                RemoveWallCommand(nextCid, id, heap, project, li),
                heap, room)

new_RemoveOpeningCommand(ids, room) ==
  \E id \in ids, li \in LevelIndexes(project) :
    Constructed(Req("RemoveOpening", id, li),
                RemoveOpeningCommand(nextCid, id, heap, project, li),
                heap, room)

new_UpdateWallCommand(ids, updates, room) ==
  \E id \in ids, np \in updates, li \in LevelIndexes(project) :
    Constructed(Req("UpdateWall", id, li),
                UpdateWallCommand(nextCid, id, np, heap, project, li),
                heap, room)

new_UpdateOpeningCommand(ids, updates, room) ==
  \E id \in ids, np \in updates, li \in LevelIndexes(project) :
    Constructed(Req("UpdateOpening", id, li),
                UpdateOpeningCommand(nextCid, id, np, heap, project, li),
                heap, room)

new_MoveOpeningCommand(ids, offsets, room) ==
  \E id \in ids, off \in offsets, li \in LevelIndexes(project) :
    Constructed(Req("MoveOpening", id, li),
                MoveOpeningCommand(nextCid, id, off, heap, project, li),
                heap, room)

\* new ThrowingCommand(): the methods that throw are the caller's choice
new_ThrowingCommand(room) ==
  \E throws \in SUBSET {"execute", "undo", "redo"} :
    Constructed(Req("Throwing", "", 0), ThrowingCommand(nextCid, throws), heap, room)

\* command is an Add command whose entity's id is already in the target array
AddsClash(c, h, p) ==
  CASE c.kind = "AddWall" ->
         findIndex(h, p.levels[c.levelIndex + 1].walls, h[c.entity].id) # -1
    [] c.kind = "AddOpening" ->
         findIndex(h, p.levels[c.levelIndex + 1].openings, h[c.entity].id) # -1
    [] OTHER -> FALSE

\* commandHistory.execute(command)
execute ==
  \E i \in DOMAIN pending :
    LET c == pending[i]
    IN /\ law.phase \in {"free", "exec"}
       /\ pending' = SubSeq(pending, 1, i - 1) \o SubSeq(pending, i + 1, Len(pending))
       /\ IF Command_throws(c, heap, project)
          THEN /\ lastOp' = Op("execute", FALSE, <<Call(c, "execute")>>, TRUE)
               /\ UNCHANGED <<heap, project, histVars, law>>
          ELSE LET st == Command_execute(c, heap, project)
                   nh == CommandHistory_execute(history, currentIndex, maxSize, c)
               IN /\ heap' = st.heap
                  /\ project' = st.project
                  /\ history' = nh.history
                  /\ currentIndex' = nh.currentIndex
                  /\ discarded' = discarded \cup
                                    ((Cids(history) \cup {c.cid}) \ Cids(nh.history))
                  /\ lastOp' = Executed(c, history, currentIndex, nh)
                  /\ law' = [law EXCEPT
                               !.n = law.n + 1,
                               !.clash = law.clash \/ AddsClash(c, heap, project),
                               !.strayed = law.strayed \/ lastOp.op # "new",
                               !.manager = pushHistory(law.manager,
                                                       Deep(st.heap, st.project))]
                  /\ UNCHANGED maxSize
       /\ UNCHANGED <<nextCid, cmdVars>>

\* the cursor of the undo-N / redo-N scenario after one more undo() or redo()
LawAfter(phase, next) ==
  IF law.phase # phase THEN law
  ELSE IF law.k + 1 = law.n THEN [law EXCEPT !.phase = next, !.k = 0]
  ELSE [law EXCEPT !.k = law.k + 1]

\* commandHistory.undo()
undo ==
  /\ law.phase \in {"free", "undo"}
  /\ IF ~canUndo(currentIndex)
     THEN /\ lastOp' = Op("undo", FALSE, <<>>, FALSE)
          /\ UNCHANGED <<heap, project, currentIndex>>
     ELSE LET c == history[currentIndex + 1]
              st == Command_undo(c, heap, project)
          IN IF Command_undo_throws(c, heap, project)
             THEN /\ lastOp' = Op("undo", FALSE, <<Call(c, "undo")>>, TRUE)
                  /\ UNCHANGED <<heap, project, currentIndex>>
             ELSE /\ heap' = st.heap
                  /\ project' = st.project
                  /\ currentIndex' = CommandHistory_undo(currentIndex)
                  /\ lastOp' = Op("undo", TRUE, <<Call(c, "undo")>>, FALSE)
  /\ law' = IF lastOp'.threw THEN [law EXCEPT !.strayed = TRUE]
            ELSE [LawAfter("undo", "redo") EXCEPT
                    !.manager = HistoryManager_undo(law.manager)]
  /\ UNCHANGED <<history, maxSize, discarded, pending, nextCid, cmdVars>>

\* commandHistory.redo()
redo ==
  /\ law.phase \in {"free", "redo"}
  /\ IF ~canRedo(history, currentIndex)
     THEN /\ lastOp' = Op("redo", FALSE, <<>>, FALSE)
          /\ UNCHANGED <<heap, project, currentIndex>>
     ELSE LET idx == CommandHistory_redo(currentIndex)
              c == history[idx + 1]
              st == BaseCommand_redo(c, heap, project)
          IN /\ currentIndex' = idx
             /\ IF Command_redo_throws(c, heap, project)
                THEN /\ lastOp' = Op("redo", FALSE, <<Call(c, "redo")>>, TRUE)
                     /\ UNCHANGED <<heap, project>>
                ELSE /\ heap' = st.heap
                     /\ project' = st.project
                     /\ lastOp' = Op("redo", TRUE, <<Call(c, "redo")>>, FALSE)
  /\ law' = IF lastOp'.threw THEN [law EXCEPT !.strayed = TRUE]
            ELSE [LawAfter("redo", "done") EXCEPT
                    !.manager = HistoryManager_redo(law.manager)]
  /\ UNCHANGED <<history, maxSize, discarded, pending, nextCid, cmdVars>>

\* commandHistory.clear()
clear ==
  /\ law.phase = "free"
  /\ history' = CommandHistory_clear.history
  /\ currentIndex' = CommandHistory_clear.currentIndex
  /\ discarded' = discarded \cup Cids(history)
  /\ lastOp' = Op("clear", FALSE, <<>>, FALSE)
  /\ law' = [law EXCEPT !.strayed = TRUE]
  /\ UNCHANGED <<heap, project, maxSize, pending, nextCid, cmdVars>>

\* new CommandHistory(maxSize) over a loaded project
Started(l, starts) ==
  \E d \in starts, ms \in 1..MaxMaxSize :
    /\ heap = Load(d).heap
    /\ project = Load(d).project
    /\ history = <<>>
    /\ currentIndex = -1
    /\ maxSize = ms
    /\ pending = <<>>
    /\ nextCid = 1
    /\ lastOp = Op("init", FALSE, <<>>, FALSE)
    /\ discarded = {}
    /\ law = [l EXCEPT !.manager = createHistoryManager(d)]
    /\ cmdPc = "idle"
    /\ pre = NoSnap
    /\ store = initialState

\* An editing session on a one-room project: any interleaving of command
\* construction, execute, undo, redo and clear.
Init == Started(Free, SessionProjects)

Next ==
  \/ new_AddWallCommand(SessionWalls, pending = <<>>)
  \/ new_AddOpeningCommand(SessionOpenings, pending = <<>>)
  \/ new_RemoveWallCommand(SessionWallIds, pending = <<>>)
  \/ new_RemoveOpeningCommand(OpeningIds, pending = <<>>)
  \/ new_UpdateWallCommand(SessionWallIds, WallUpdates, pending = <<>>)
  \/ new_UpdateOpeningCommand(OpeningIds, OpeningUpdates, pending = <<>>)
  \/ new_MoveOpeningCommand(OpeningIds, NewOffsets, pending = <<>>)
  \/ execute
  \/ undo
  \/ redo
  \/ clear

Spec == Init /\ [][Next]_vars

\* The undo-N / redo-N scenario: N commands, constructed at any time before
\* they are executed, are executed on a new history; then undo() is called N
\* times and redo() N times.
beginUndo ==
  /\ law.phase = "exec"
  /\ law.n >= 1
  /\ law' = [law EXCEPT !.phase = "undo", !.snap = Deep(heap, project)]
  /\ lastOp' = Op("begin", FALSE, <<>>, FALSE)
  /\ UNCHANGED <<heap, project, histVars, pending, nextCid, cmdVars>>

InitLaw == Started(Law("exec", 0, 0, NoSnap), StartProjects)

NextLaw ==
  \/ new_AddWallCommand(NewWalls, TRUE)
  \/ new_AddOpeningCommand(NewOpenings, TRUE)
  \/ new_RemoveWallCommand(WallIds, TRUE)
  \/ new_RemoveOpeningCommand(OpeningIds, TRUE)
  \/ new_UpdateWallCommand(WallIds, WallUpdates, TRUE)
  \/ new_UpdateOpeningCommand(OpeningIds, OpeningUpdates, TRUE)
  \/ new_MoveOpeningCommand(OpeningIds, NewOffsets, TRUE)
  \/ execute
  \/ beginUndo
  \/ undo
  \/ redo

SpecLaw == InitLaw /\ [][NextLaw]_vars

\* C1 as stated: after N executions, N undo() and N redo(), the Project
\* deep-equals the Project right after the N executions.
C1_Original ==
  law.phase = "done" => Deep(heap, project) = law.snap

\* C1 amended: the same, for sequences in which no Add command adds an entity
\* whose id an entity of the target array already carries.
C1_UndoRedoInverse ==
  (law.phase = "done" /\ ~law.clash) => Deep(heap, project) = law.snap

\* N = 3 commands on a history of two, the oldest evicted: three undo() and
\* three redo() later the cursor is back on the last command
C1_Witness ==
  /\ law.phase = "done" /\ ~law.clash /\ law.n = 3
  /\ currentIndex = 1 /\ discarded # {}

(***************************************************************************)
(* One command object driven directly, as the command tests do: construct, *)
(* execute(), undo(), execute() again ...  The level it works on is any     *)
(* short array of walls and of openings, ids repeated or not.              *)
(***************************************************************************)
\* all sequences over S of length at most n
SeqsUpTo(S, n) == UNION {[1..k -> S] : k \in 0..n}

CmdWalls ==
  { Wall("w1", P0, P1, 200, 2700),
    Wall("w1", P0, P2, 150, 2700),
    Wall("w2", P1, P2, 200, 3000) }

CmdOpenings ==
  { Opening("o1", "w1", "door", 1000, 900, 2100, 0),
    Opening("o1", "w2", "window", 2000, 1200, 1200, 900),
    Opening("o2", "w1", "window", 3000, 1500, 1200, 900) }

\* a second level, holding entities with the ids of the first
UpperLevel ==
  LevelOf("l2", << Wall("w1", P0, P1, 300, 2700) >>,
                << Opening("o1", "w1", "door", 1000, 900, 2100, 0) >>)

CmdProjects ==
  { <<Level(ws, os)>> \o upper :
      ws \in SeqsUpTo(CmdWalls, MaxWalls),
      os \in SeqsUpTo(CmdOpenings, MaxOpenings),
      upper \in { <<>>, <<UpperLevel>> } }

\* every non-empty subset of the fields, each with its new value
Partials(new) == { [f \in F |-> new[f]] : F \in (SUBSET DOMAIN new) \ {{}} }

AllWallUpdates ==
  Partials([a |-> Point(1000, 1000), b |-> Point(6000, 1000),
            thicknessMm |-> 300, heightMm |-> 3000])

AllOpeningUpdates ==
  Partials([wallId |-> "w2", type |-> "window", offsetMm |-> 2500,
            widthMm |-> 1200, heightMm |-> 1500, sillHeightMm |-> 600])

\* command.execute() called directly
command_execute ==
  /\ pending # <<>>
  /\ cmdPc \in {"idle", "undone"}
  /\ LET c == pending[1]
     IN IF Command_throws(c, heap, project)
        THEN /\ lastOp' = Op("command.execute", FALSE, <<Call(c, "execute")>>, TRUE)
             /\ UNCHANGED <<heap, project, cmdVars>>
        ELSE LET st == Command_execute(c, heap, project)
             IN /\ heap' = st.heap
                /\ project' = st.project
                /\ cmdPc' = "executed"
                /\ pre' = IF cmdPc = "idle" THEN St(heap, project) ELSE pre
                /\ UNCHANGED store
                /\ lastOp' = Op("command.execute", FALSE, <<Call(c, "execute")>>, FALSE)
  /\ UNCHANGED <<histVars, pending, nextCid, law>>

\* command.undo() called directly
command_undo ==
  /\ pending # <<>>
  /\ cmdPc = "executed"
  /\ LET c == pending[1]
         st == Command_undo(c, heap, project)
     IN /\ heap' = st.heap
        /\ project' = st.project
        /\ cmdPc' = "undone"
        /\ lastOp' = Op("command.undo", FALSE, <<Call(c, "undo")>>, FALSE)
  /\ UNCHANGED <<histVars, pending, nextCid, law, pre, store>>

InitCmd ==
  \E d \in CmdProjects :
    /\ heap = Load(d).heap
    /\ project = Load(d).project
    /\ history = <<>>
    /\ currentIndex = -1
    /\ maxSize = MaxMaxSize
    /\ pending = <<>>
    /\ nextCid = 1
    /\ lastOp = Op("init", FALSE, <<>>, FALSE)
    /\ discarded = {}
    /\ law = Free
    /\ cmdPc = "idle"
    /\ pre = NoSnap
    /\ store = initialState

NextCmd ==
  \/ new_AddWallCommand(CmdWalls, pending = <<>>)
  \/ new_AddOpeningCommand(CmdOpenings, pending = <<>>)
  \/ new_RemoveWallCommand(WallIds, pending = <<>>)
  \/ new_RemoveOpeningCommand({"o1", "o2"}, pending = <<>>)
  \/ new_UpdateWallCommand({"w1"}, AllWallUpdates, pending = <<>>)
  \/ new_UpdateWallCommand({"w2"}, WallUpdates, pending = <<>>)
  \/ new_UpdateOpeningCommand({"o1"}, AllOpeningUpdates, pending = <<>>)
  \/ new_UpdateOpeningCommand({"o2"}, OpeningUpdates, pending = <<>>)
  \/ new_MoveOpeningCommand({"o1", "o2"}, NewOffsets, pending = <<>>)
  \/ command_execute
  \/ command_undo

SpecCmd == InitCmd /\ [][NextCmd]_vars

\* the command under direct drive, and the entity its id named when it was
\* first executed (the first one of the level's array with that id)
TheCmd == pending[1]

IsUpdate(c) == c.kind \in {"UpdateWall", "UpdateOpening"}

ArrayOf(c, p) ==
  IF c.kind \in {"AddWall", "RemoveWall", "UpdateWall"}
  THEN p.levels[c.levelIndex + 1].walls
  ELSE p.levels[c.levelIndex + 1].openings

FirstWithId(h, arr, id) ==
  LET I == {i \in DOMAIN arr : h[arr[i]].id = id}
  IN arr[CHOOSE i \in I : \A j \in I : i <= j]

\* C6 as stated: after execute() and undo() of an Update command, every field
\* present in partialNewFields has the value it had at construction.
C6_Original ==
  (cmdPc = "undone" /\ IsUpdate(TheCmd)) =>
     LET target == FirstWithId(pre.heap, ArrayOf(TheCmd, pre.project), TheCmd.entityId)
     IN \A f \in DOMAIN TheCmd.newProperties : heap[target][f] = pre.heap[target][f]

\* C7: execute() and undo() of an Update command leave every field of the
\* target that is absent from partialNewFields, every other entity object and
\* every array of every level as they were.
C7_UpdateFrame ==
  [][ ((Step("command.execute") \/ Step("command.undo")) /\ IsUpdate(TheCmd)
         /\ ~lastOp'.threw) =>
        LET target == FirstWithId(heap, ArrayOf(TheCmd, project), TheCmd.entityId)
        IN /\ project' = project
           /\ DOMAIN heap' = DOMAIN heap
           /\ \A r \in DOMAIN heap : r # target => heap'[r] = heap[r]
           /\ \A f \in DOMAIN heap[target] :
                 f \notin DOMAIN TheCmd.newProperties => heap'[target][f] = heap[target][f]
    ]_vars

\* an Update of a wall that shares its id with another wall of the level has
\* been executed and undone, and its execute() did change the wall
C7_Witness ==
  /\ cmdPc = "undone" /\ TheCmd.kind = "UpdateWall"
  /\ Len(project.levels[1].walls) = 2
  /\ heap[project.levels[1].walls[1]].id = heap[project.levels[1].walls[2]].id
  /\ "heightMm" \in DOMAIN TheCmd.newProperties
  /\ heap # pre.heap

\* C9: a Remove command constructed on the current project, executed and
\* undone leaves the level's arrays holding the same entity objects in the
\* same order, with the same field values.
C9_RemoveUndoRestores ==
  (cmdPc = "undone" /\ TheCmd.kind \in {"RemoveWall", "RemoveOpening"}) =>
     /\ project = pre.project
     /\ Deep(heap, project) = Deep(pre.heap, pre.project)

\* the first of two walls was removed and put back
C9_Witness ==
  /\ cmdPc = "undone" /\ TheCmd.kind = "RemoveWall"
  /\ TheCmd.originalIndex = 0 /\ Len(project.levels[1].walls) = 2

\* C10 as stated: execute() of an Add command appends the entity as the last
\* element of the level's array, and after undo() the array is as it was
\* before execute(), whatever it held.
C10_Original ==
  /\ (cmdPc = "executed" /\ TheCmd.kind \in {"AddWall", "AddOpening"}) =>
        ArrayOf(TheCmd, project) = Append(ArrayOf(TheCmd, pre.project), TheCmd.entity)
  /\ (cmdPc = "undone" /\ TheCmd.kind \in {"AddWall", "AddOpening"}) =>
        Deep(heap, project) = Deep(pre.heap, pre.project)

\* C11: through any alternation of execute() and undo() of one
\* MoveOpeningCommand, the opening's offsetMm is newOffset after each execute()
\* and the offset it had at construction after each undo(); its other fields,
\* every other entity and every array stay as they were.
C11_MoveCycles ==
  (cmdPc \in {"executed", "undone"} /\ TheCmd.kind = "MoveOpening") =>
     LET target == FirstWithId(pre.heap, ArrayOf(TheCmd, pre.project), TheCmd.entityId)
     IN /\ heap[target].offsetMm = IF cmdPc = "executed" THEN TheCmd.newOffset
                                   ELSE pre.heap[target].offsetMm
        /\ project = pre.project
        /\ DOMAIN heap = DOMAIN pre.heap
        /\ \A r \in DOMAIN heap : r # target => heap[r] = pre.heap[r]
        /\ \A f \in DOMAIN heap[target] :
              f # "offsetMm" => heap[target][f] = pre.heap[target][f]

\* a MoveOpeningCommand on the first of two openings that share their id has
\* been undone, and the opening is back at an offset other than newOffset
C11_Witness ==
  /\ cmdPc = "undone" /\ TheCmd.kind = "MoveOpening"
  /\ Len(project.levels[1].openings) = 2
  /\ heap[project.levels[1].openings[1]].id = TheCmd.entityId
  /\ heap[project.levels[1].openings[2]].id = TheCmd.entityId
  /\ heap[project.levels[1].openings[1]].offsetMm # TheCmd.newOffset

(***************************************************************************)
(* Properties of the history (specification Spec).                         *)
(***************************************************************************)
\* this step is an execute() that returned normally, of command object cid
ExecuteStep == Step("execute") /\ ~lastOp'.threw
ExecutedCid == lastOp'.calls[1][1]

\* identity of the commands that stand after the cursor
AfterCursor(hist, idx) == {hist[i].cid : i \in (idx + 2) .. Len(hist)}

\* C2: after an execute() that returns, every command that stood after the
\* cursor is gone from the history, canRedo() is false, a redo() called next
\* returns false and delegates to nothing, and no operation ever calls a
\* method of a command the history has dropped.
C2_HistoryTruncation ==
  [][ /\ ExecuteStep =>
           /\ ~canRedo(history', currentIndex')
           /\ AfterCursor(history, currentIndex) \cap Cids(history') = {}
           /\ AfterCursor(history, currentIndex) \subseteq discarded'
      /\ (lastOp.op = "execute" /\ ~lastOp.threw /\ Step("redo")) =>
           (lastOp'.ret = FALSE /\ lastOp'.calls = <<>>)
      /\ \A i \in DOMAIN lastOp'.calls : lastOp'.calls[i][1] \notin discarded
    ]_vars

\* an execute() has cut off a redo branch of at least one command
C2_Witness == lastOp.op = "execute" /\ ~lastOp.threw /\ lastOp.cut > 0

MissingId(req, h, p) ==
  \/ ~HasLevel(p, req.levelIndex)
  \/ LET lv == p.levels[req.levelIndex + 1]
         arr == IF req.kind \in {"RemoveWall", "UpdateWall"} THEN lv.walls ELSE lv.openings
     IN \A i \in DOMAIN arr : h[arr[i]].id # req.id

\* C8: constructing a Remove, Update or Move command with an id that the
\* level does not hold throws; no command object comes to exist, and the
\* Project, the history list and the cursor stay as they were.
C8_MissingIdThrows ==
  [][ ( /\ Step("new")
        /\ lastOp'.req.kind \in {"RemoveWall", "RemoveOpening", "UpdateWall",
                                 "UpdateOpening", "MoveOpening"}
        /\ MissingId(lastOp'.req, heap, project) ) =>
        /\ lastOp'.threw
        /\ UNCHANGED <<heap, project, history, currentIndex, pending, nextCid>>
    ]_vars

\* a MoveOpeningCommand constructor has thrown on a level whose opening was
\* removed, with commands in the history
C8_Witness ==
  /\ lastOp.op = "new" /\ lastOp.threw /\ lastOp.req.kind = "MoveOpening"
  /\ lastOp.req.levelIndex = 0 /\ project.levels[1].openings = <<>>
  /\ size(history) >= 1 /\ pending = <<>>

\* C4: undo() below the first command and redo() at the head change nothing,
\* delegate to nothing and return false; otherwise undo() calls undo of the
\* command at the cursor once and moves the cursor down by one, redo() moves
\* the cursor up by one and calls redo of the command now at the cursor once,
\* and both return true.  Neither changes the history list.
C4_UndoRedoSteps ==
  [][ /\ Step("undo") =>
           IF currentIndex < 0
           THEN /\ lastOp'.ret = FALSE /\ lastOp'.calls = <<>>
                /\ UNCHANGED <<history, currentIndex, heap, project>>
           ELSE /\ lastOp'.ret = TRUE
                /\ lastOp'.calls = <<Call(history[currentIndex + 1], "undo")>>
                /\ currentIndex' = currentIndex - 1
                /\ history' = history
      /\ Step("redo") =>
           IF currentIndex >= size(history) - 1
           THEN /\ lastOp'.ret = FALSE /\ lastOp'.calls = <<>>
                /\ UNCHANGED <<history, currentIndex, heap, project>>
           ELSE /\ lastOp'.ret = TRUE
                /\ currentIndex' = currentIndex + 1
                /\ lastOp'.calls = <<Call(history[currentIndex' + 1], "redo")>>
                /\ history' = history
    ]_vars

\* a redo() at the head of a non-empty history has returned false
C4_Witness ==
  /\ lastOp.op = "redo" /\ lastOp.ret = FALSE
  /\ size(history) > 0 /\ currentIndex = size(history) - 1

\* the three states of the history
Empty == currentIndex = -1
MidStack == 0 <= currentIndex /\ currentIndex < size(history) - 1
AtHead == 0 <= currentIndex /\ currentIndex = size(history) - 1

\* C5: the cursor stays within -1 .. size()-1, so the history is in exactly
\* one of the three states; undo is available in mid-stack and at-head and
\* not in empty, redo is available in mid-stack and not at-head.
C5_CursorInRange ==
  /\ -1 <= currentIndex /\ currentIndex <= size(history) - 1
  /\ (Empty /\ ~MidStack /\ ~AtHead) \/ (~Empty /\ MidStack /\ ~AtHead)
       \/ (~Empty /\ ~MidStack /\ AtHead)
  /\ canUndo(currentIndex) <=> (MidStack \/ AtHead)
  /\ MidStack => canRedo(history, currentIndex)
  /\ AtHead => ~canRedo(history, currentIndex)
  /\ canRedo(history, currentIndex) <=> (currentIndex < size(history) - 1)

\* mid-stack after an eviction: a full history with the cursor on its first command
C5_Witness ==
  MidStack /\ size(history) = maxSize /\ discarded # {}
(***************************************************************************)
(* The validator called on its own, as the rule tests do: any project of   *)
(* the input families, any wall, opening or level of it.                   *)
(***************************************************************************)
\* bound of the exploration: openings of one level in the overlap family
MaxGroup == 3

\* a function of the validator called with arg, returning issues
Called(name, arg, issues) ==
  [Op(name, FALSE, << >>, FALSE) EXCEPT !.arg = arg, !.issues = issues]

\* walls by length: 99, 100, 499, 500, the diagonals 60,80 and 300,400 and
\* 299,400, a wall of length 0 and one running in the negative direction
LengthWalls ==
  { Wall("w1", P0, Point(x, 0), 200, 2700) : x \in {0, 99, 100, 499, 500, -99, -100} }
    \cup { Wall("w1", Point(10, 20), Point(10 + x, 20 + y), 200, 2700) :
             x \in {60, 299, 300}, y \in {80, 400} }

\* the walls openings stand on: lengths 2000 and sqrt(2) * 1000
FitWalls ==
  << Wall("w1", P0, Point(2000, 0), 200, 2700),
     Wall("w2", P0, Point(1000, 1000), 200, 2700) >>

FitOpenings ==
  { Opening("o1", w, "window", off, 1200, 1200, 900) :
      w \in {"w1", "w2", "w3"}, off \in {800, 801, 214, 215, -100} }

\* doors and windows on either side of every limit of validateOpeningDimensions
DimOpenings ==
  { Opening("o1", "w1", "door", 0, w, hgt, sill) :
      w \in {699, 700}, hgt \in {1799, 1800}, sill \in {0, 100} }
    \cup { Opening("o1", "w1", "window", 0, w, 1200, sill) :
             w \in {699, 700}, sill \in {0, 599, 600} }

\* openings of the overlap family: one starts where another ends (1400), or
\* one millimetre before; widths 900 and 0; a second wall
OverlapOpenings ==
  { Opening("o1", "w1", "window", off, w, 1200, 900) :
      off \in {500, 1399, 1400}, w \in {0, 900} }
    \cup { Opening("o1", "w2", "window", 500, 900, 1200, 900) }

\* the openings of a level, named o1, o2, ... by their place
Numbered(os) ==
  [i \in DOMAIN os |-> [os[i] EXCEPT !.id = <<"o1", "o2", "o3", "o4", "o5">>[i]]]

\* two levels whose level, wall and opening ids are drawn from two names
IdProjects ==
  { << LevelOf("x1", << Wall(a, P0, P1, 200, 2700) >>,
               << Opening(b, a, "door", 1000, 900, 2100, 0) >>),
       LevelOf(c, << Wall(d, P0, P1, 200, 2700) >>,
               << Opening(e, d, "door", 1000, 900, 2100, 0) >>) >> :
      a \in {"x2", "x3"}, b \in {"x1", "x2", "x4"}, c \in {"x1", "x5"},
      d \in {"x2", "x6"}, e \in {"x4", "x7"} }

\* a project with an issue of every rule: a short wall, two walls of one id,
\* a narrow door on a missing wall, two overlapping windows of which one runs
\* past the wall's end, and an upper level without walls
MixedProject ==
  << Level(<< Wall("w1", P0, Point(2000, 0), 200, 2700),
              Wall("w1", P0, Point(300, 0), 200, 2700) >>,
           << Opening("o1", "w3", "door", 0, 600, 2100, 0),
              Opening("o2", "w1", "window", 1400, 900, 1200, 900),
              Opening("o3", "w1", "window", 500, 1000, 1200, 900) >>),
     LevelOf("l2", << >>, << >>) >>

\* openings of any offset and width on a wall of length 0, beside a wall
\* that has a length
DegenerateProjects ==
  { << Level(<< Wall("w1", Point(10, 20), Point(10, 20), 200, 2700),
                Wall("w2", P0, Point(1000, 1000), 200, 2700) >>,
             << Opening("o1", "w1", "window", off, w, 1200, 900),
                Opening("o2", "w2", "window", off, w, 1200, 900) >>) >> :
      off \in {-100, 0, 500}, w \in {0, 900} }

ValProjects ==
  { << Level(<<w>>, << >>) >> : w \in LengthWalls }
    \cup DegenerateProjects
    \cup { << Level(FitWalls, <<o>>), LevelOf("l2", << >>, <<o>>) >> : o \in FitOpenings }
    \cup { << Level(FitWalls, <<o>>) >> : o \in DimOpenings }
    \cup { << Level(FitWalls, Numbered(os)) >> :
             os \in SeqsUpTo(OverlapOpenings, MaxGroup) }
    \cup IdProjects \cup {MixedProject}

\* validateProject(project)
call_validateProject ==
  LET r == validateProject(heap, project)
  IN /\ lastOp.op = "validateProject" => lastOp.nth < 2
     /\ lastOp' = [Called("validateProject", Deep(heap, project), r.issues)
                     EXCEPT !.nth = IF lastOp.op = "validateProject"
                                    THEN lastOp.nth + 1 ELSE 1]
     /\ project' = r.project
     /\ UNCHANGED <<heap, histVars, pending, nextCid, law, cmdVars>>

\* validateWallLength(wall) on a wall of the project
call_validateWallLength ==
  \E li \in DOMAIN project.levels : \E i \in DOMAIN project.levels[li].walls :
    LET wall == heap[project.levels[li].walls[i]]
    IN /\ lastOp' = Called("validateWallLength", wall, validateWallLength(wall))
       /\ UNCHANGED <<heap, project, histVars, pending, nextCid, law, cmdVars>>

\* validateOpeningFitsWall(opening, walls) on an opening of the project and
\* the walls of any of its levels
call_validateOpeningFitsWall ==
  \E li \in DOMAIN project.levels, lj \in DOMAIN project.levels :
    \E i \in DOMAIN project.levels[li].openings :
      LET opening == heap[project.levels[li].openings[i]]
          walls == DeepLevel(heap, project.levels[lj]).walls
      IN /\ lastOp' = Called("validateOpeningFitsWall",
                             [opening |-> opening, walls |-> walls],
                             validateOpeningFitsWall(opening, walls))
         /\ UNCHANGED <<heap, project, histVars, pending, nextCid, law, cmdVars>>

\* validateOpeningDimensions(opening) on an opening of the project
call_validateOpeningDimensions ==
  \E li \in DOMAIN project.levels : \E i \in DOMAIN project.levels[li].openings :
    LET opening == heap[project.levels[li].openings[i]]
    IN /\ lastOp' = Called("validateOpeningDimensions", opening,
                           validateOpeningDimensions(opening))
       /\ UNCHANGED <<heap, project, histVars, pending, nextCid, law, cmdVars>>

\* validateOpeningsNoOverlap(level) on a level of the project
call_validateOpeningsNoOverlap ==
  \E li \in DOMAIN project.levels :
    LET r == validateOpeningsNoOverlap(heap, project.levels[li])
    IN /\ lastOp' = Called("validateOpeningsNoOverlap",
                           DeepLevel(heap, project.levels[li]), r.issues)
       /\ project' = [project EXCEPT !.levels[li].openings = r.openings]
       /\ UNCHANGED <<heap, histVars, pending, nextCid, law, cmdVars>>

\* deriveWallsGeometry(level.walls) on a level of the project
call_deriveWallsGeometry ==
  \E li \in DOMAIN project.levels :
    LET walls == DeepLevel(heap, project.levels[li]).walls
    IN /\ lastOp' = [Called("deriveWallsGeometry", walls, << >>)
                       EXCEPT !.result = deriveWallsGeometry(walls)]
       /\ UNCHANGED <<heap, project, histVars, pending, nextCid, law, cmdVars>>

\* deriveOpeningsGeometry(level.openings, level.walls) on a level of the project
call_deriveOpeningsGeometry ==
  \E li \in DOMAIN project.levels :
    LET level == DeepLevel(heap, project.levels[li])
        r == deriveOpeningsGeometry(level.openings, level.walls)
    IN /\ lastOp' = [Called("deriveOpeningsGeometry", level, << >>)
                       EXCEPT !.result = r.geometry, !.threw = r.threw]
       /\ UNCHANGED <<heap, project, histVars, pending, nextCid, law, cmdVars>>

\* validateProjectSchema(JSON.parse(JSON.stringify(project)))
call_validateProjectSchema ==
  LET r == validateProjectSchema(Deep(heap, project))
  IN /\ lastOp' = [Called("validateProjectSchema", Deep(heap, project), << >>)
                     EXCEPT !.result = r.project, !.threw = r.threw]
     /\ UNCHANGED <<heap, project, histVars, pending, nextCid, law, cmdVars>>

InitVal ==
  \E d \in ValProjects :
    /\ heap = Load(d).heap
    /\ project = Load(d).project
    /\ history = <<>>
    /\ currentIndex = -1
    /\ maxSize = MaxMaxSize
    /\ pending = <<>>
    /\ nextCid = 1
    /\ lastOp = Op("init", FALSE, <<>>, FALSE)
    /\ discarded = {}
    /\ law = Free
    /\ cmdPc = "idle"
    /\ pre = NoSnap
    /\ store = initialState

NextVal ==
  \/ call_validateProject
  \/ call_validateWallLength
  \/ call_validateOpeningFitsWall
  \/ call_validateOpeningDimensions
  \/ call_validateOpeningsNoOverlap
  \/ call_deriveWallsGeometry
  \/ call_deriveOpeningsGeometry
  \/ call_validateProjectSchema

SpecVal == InitVal /\ [][NextVal]_vars

(***************************************************************************)
(* Properties of the validator (specification SpecVal).                    *)
(***************************************************************************)
\* every entity of the plain Project d: its kind, its place and its id
EntitiesOf(d) ==
  { [kind |-> "level", at |-> <<li>>, id |-> d[li].id] : li \in DOMAIN d }
    \cup UNION { { [kind |-> "wall", at |-> <<li, i>>, id |-> d[li].walls[i].id] :
                     i \in DOMAIN d[li].walls } : li \in DOMAIN d }
    \cup UNION { { [kind |-> "opening", at |-> <<li, i>>, id |-> d[li].openings[i].id] :
                     i \in DOMAIN d[li].openings } : li \in DOMAIN d }

Codes(issues) == {issues[i].code : i \in DOMAIN issues}

DuplicateCodes == {"DUPLICATE_LEVEL_ID", "DUPLICATE_WALL_ID", "DUPLICATE_OPENING_ID"}

\* C13 as stated: whenever two entities of the Project share an id, of the
\* same kind or not, on the same level or not, validateProject returns at
\* least one DUPLICATE_* error.
C13_Original ==
  lastOp.op = "validateProject" =>
    ( (\E e1, e2 \in EntitiesOf(lastOp.arg) : e1 # e2 /\ e1.id = e2.id)
        => Codes(lastOp.issues) \cap DuplicateCodes # {} )

\* what the validator does enforce: two entities of the same kind sharing an
\* id give a DUPLICATE_* error of that kind, and without such a pair there is
\* no DUPLICATE_* error
C13_SameKindIds ==
  lastOp.op = "validateProject" =>
    ( (\E e1, e2 \in EntitiesOf(lastOp.arg) :
          e1 # e2 /\ e1.id = e2.id /\ e1.kind = e2.kind)
        <=> Codes(lastOp.issues) \cap DuplicateCodes # {} )

\* two distinct openings of the level stand on the same wall, have widths of
\* at least minWidth, and the interval of one begins inside the other's
Overlapping(level, minWidth) ==
  \E i, j \in DOMAIN level.openings :
    LET oi == level.openings[i]
        oj == level.openings[j]
    IN /\ i # j /\ oi.wallId = oj.wallId
       /\ oi.widthMm >= minWidth /\ oj.widthMm >= minWidth
       /\ oi.offsetMm <= oj.offsetMm /\ oi.offsetMm + oi.widthMm > oj.offsetMm

\* C15 as stated: validateOpeningsNoOverlap(level) returns an OPENINGS_OVERLAP
\* error iff two distinct openings of one wall with non-negative widths
\* overlap; it returns nothing else.
C15_Original ==
  lastOp.op = "validateOpeningsNoOverlap" =>
    /\ Codes(lastOp.issues) \subseteq {"OPENINGS_OVERLAP"}
    /\ (lastOp.issues # << >>) <=> Overlapping(lastOp.arg, 0)

\* the same for levels whose openings all have a positive width
C15_PositiveWidths ==
  ( /\ lastOp.op = "validateOpeningsNoOverlap"
    /\ \A i \in DOMAIN lastOp.arg.openings : lastOp.arg.openings[i].widthMm > 0 ) =>
    /\ Codes(lastOp.issues) \subseteq {"OPENINGS_OVERLAP"}
    /\ (lastOp.issues # << >>) <=> Overlapping(lastOp.arg, 1)

\* the rules of validateOpeningDimensions an opening violates, each with the
\* issue it calls for, in the order the source tests them
ViolatedRules(o) ==
  SelectSeq(
    << [holds |-> o.type = "door" /\ o.widthMm < 700,
        issue |-> Issue("DOOR_TOO_NARROW", "error", o.id, [widthMm |-> 700])],
       [holds |-> o.type = "door" /\ o.heightMm < 1800,
        issue |-> Issue("DOOR_TOO_SHORT", "error", o.id, [heightMm |-> 1800])],
       [holds |-> o.type = "door" /\ o.sillHeightMm # 0,
        issue |-> Issue("DOOR_INVALID_SILL", "error", o.id, [sillHeightMm |-> 0])],
       [holds |-> o.type = "window" /\ o.sillHeightMm < 600,
        issue |-> Issue("WINDOW_SILL_TOO_LOW", "error", o.id, [sillHeightMm |-> 600])] >>,
    LAMBDA r : r.holds)

\* C16 as stated: validateOpeningDimensions(opening) returns exactly one issue
\* for each rule the opening violates, with that rule's fix, and nothing else.
C16_Original ==
  lastOp.op = "validateOpeningDimensions" =>
    LET rules == ViolatedRules(lastOp.arg)
    IN lastOp.issues = [i \in DOMAIN rules |-> rules[i].issue]

\* what the function does return: the issue of the first violated rule only
C16_FirstRuleOnly ==
  lastOp.op = "validateOpeningDimensions" =>
    LET rules == ViolatedRules(lastOp.arg)
    IN lastOp.issues = IF rules = << >> THEN << >> ELSE << rules[1].issue >>

\* the square of the length of a wall
LengthSq(wall) ==
  (wall.b.x - wall.a.x) * (wall.b.x - wall.a.x)
    + (wall.b.y - wall.a.y) * (wall.b.y - wall.a.y)

\* the integer n is larger than the length of the wall
Beyond(n, wall) == n > 0 /\ n * n > LengthSq(wall)

\* the first wall of the list carrying the id
FirstWall(walls, id) ==
  walls[CHOOSE i \in DOMAIN walls :
          walls[i].id = id /\ \A j \in DOMAIN walls : walls[j].id = id => i <= j]

\* C17: validateOpeningFitsWall(opening, walls) returns exactly one
\* WALL_NOT_FOUND error with the fix 'delete' when no wall of the list carries
\* opening.wallId; otherwise exactly one OPENING_EXCEEDS_WALL error when
\* offsetMm + widthMm is larger than the wall's length and nothing when it is
\* not (an end equal to the length fits).  validateProject looks the wall up
\* among the walls of the opening's own level only.
C17_OpeningFitsWall ==
  /\ lastOp.op = "validateOpeningFitsWall" =>
       LET o == lastOp.arg.opening
           walls == lastOp.arg.walls
       IN IF \A i \in DOMAIN walls : walls[i].id # o.wallId
          THEN lastOp.issues =
                 << Issue("WALL_NOT_FOUND", "error", o.id, [action |-> "delete"]) >>
          ELSE IF Beyond(o.offsetMm + o.widthMm, FirstWall(walls, o.wallId))
          THEN /\ Len(lastOp.issues) = 1
               /\ lastOp.issues[1].code = "OPENING_EXCEEDS_WALL"
               /\ lastOp.issues[1].severity = "error"
               /\ lastOp.issues[1].entityId = o.id
          ELSE lastOp.issues = << >>
  /\ lastOp.op = "validateProject" =>
       \A li \in DOMAIN lastOp.arg : \A i \in DOMAIN lastOp.arg[li].openings :
         LET o == lastOp.arg[li].openings[i]
         IN (\A w \in DOMAIN lastOp.arg[li].walls : lastOp.arg[li].walls[w].id # o.wallId)
              => \E k \in DOMAIN lastOp.issues :
                   lastOp.issues[k] =
                     Issue("WALL_NOT_FOUND", "error", o.id, [action |-> "delete"])

\* an opening that ends exactly at the end of its 2000 mm wall got no issue
C17_Witness ==
  /\ lastOp.op = "validateOpeningFitsWall" /\ lastOp.issues = << >>
  /\ lastOp.arg.opening.wallId = "w1"
  /\ lastOp.arg.opening.offsetMm + lastOp.arg.opening.widthMm = 2000
  /\ Len(lastOp.arg.walls) = 2 /\ LengthSq(lastOp.arg.walls[1]) = 2000 * 2000

\* validateProject reported an opening whose wall is on another level only
C17_WitnessOtherLevel ==
  /\ lastOp.op = "validateProject" /\ Len(lastOp.arg) = 2
  /\ Len(lastOp.arg[2].openings) = 1 /\ lastOp.arg[2].openings[1].wallId = "w1"
  /\ lastOp.arg[1].walls # << >> /\ lastOp.arg[1].walls[1].id = "w1"
  /\ "WALL_NOT_FOUND" \in Codes(lastOp.issues)

\* C18: for a wall with integer endpoints validateWallLength returns exactly
\* one WALL_TOO_SHORT error with the fix 'delete' iff dx*dx + dy*dy < 100*100,
\* exactly one WALL_UNUSUALLY_SHORT warning without a fix iff
\* 100*100 <= dx*dx + dy*dy < 500*500, and nothing iff dx*dx + dy*dy >= 500*500.
C18_WallLength ==
  lastOp.op = "validateWallLength" =>
    LET wall == lastOp.arg
        sq == LengthSq(wall)
    IN lastOp.issues =
         IF sq < 100 * 100
         THEN << Issue("WALL_TOO_SHORT", "error", wall.id, [action |-> "delete"]) >>
         ELSE IF sq < 500 * 500
         THEN << Issue("WALL_UNUSUALLY_SHORT", "warning", wall.id, NoFix) >>
         ELSE << >>

\* the diagonal wall of 60 by 80 (length exactly 100) got the warning
C18_Witness ==
  /\ lastOp.op = "validateWallLength"
  /\ lastOp.arg.b.x - lastOp.arg.a.x = 60 /\ lastOp.arg.b.y - lastOp.arg.a.y = 80
  /\ Codes(lastOp.issues) = {"WALL_UNUSUALLY_SHORT"}

\* the concatenation of a sequence of sequences
RECURSIVE Flat(_)
Flat(ss) == IF ss = << >> THEN << >> ELSE Head(ss) \o Flat(Tail(ss))

\* validateOpeningsNoOverlap applied to a level given by value
OverlapIssues(level) ==
  LET ld == Load(<<level>>)
  IN validateOpeningsNoOverlap(ld.heap, ld.project.levels[1]).issues

\* C19: validateProject(p) is the concatenation of validateUniqueIds(p) and,
\* for each level in array order, validateLevelHasWalls(level), then
\* validateWallLength of each wall in array order, then for each opening in
\* array order validateOpeningFitsWall followed by validateOpeningDimensions,
\* then validateOpeningsNoOverlap(level).
C19_ValidateProjectOrder ==
  lastOp.op = "validateProject" =>
    LET d == lastOp.arg
    IN lastOp.issues =
         validateUniqueIds(d) \o
         Flat([li \in DOMAIN d |->
                 validateLevelHasWalls(d[li])
                   \o Flat([i \in DOMAIN d[li].walls |-> validateWallLength(d[li].walls[i])])
                   \o Flat([i \in DOMAIN d[li].openings |->
                              validateOpeningFitsWall(d[li].openings[i], d[li].walls)
                                \o validateOpeningDimensions(d[li].openings[i])])
                   \o OverlapIssues(d[li])])

\* a validation that returned issues of every rule, over two levels
C19_Witness ==
  /\ lastOp.op = "validateProject" /\ Len(lastOp.arg) = 2
  /\ Codes(lastOp.issues) =
       {"DUPLICATE_WALL_ID", "WALL_UNUSUALLY_SHORT", "WALL_NOT_FOUND", "DOOR_TOO_NARROW",
        "OPENING_EXCEEDS_WALL", "OPENINGS_OVERLAP", "EMPTY_LEVEL"}

\* the validator's and the geometry layer's functions
ReadOnlyOps ==
  {"validateProject", "validateWallLength", "validateOpeningFitsWall",
   "validateOpeningDimensions", "validateOpeningsNoOverlap",
   "deriveWallsGeometry", "deriveOpeningsGeometry"}

\* C20: no call of validateProject, of a single validator or of a geometry
\* derivation changes an entity or an array of the Project it is given (the
\* sort inside validateOpeningsNoOverlap leaves level.openings in its order),
\* and validateProject called again on the unmodified Project returns the same
\* issues in the same order.
C20_ReadOnly ==
  [][ /\ lastOp'.op \in ReadOnlyOps => (heap' = heap /\ project' = project)
      /\ (Step("validateProject") /\ lastOp.op = "validateProject") =>
           lastOp'.issues = lastOp.issues
    ]_vars

\* validateProject has been called twice in a row on a level whose openings
\* on one wall are not in offset order, and found them overlapping
C20_Witness ==
  /\ lastOp.op = "validateProject" /\ lastOp.nth = 2
  /\ "OPENINGS_OVERLAP" \in Codes(lastOp.issues)
  /\ \E i, j \in DOMAIN project.levels[1].openings :
       /\ i < j
       /\ heap[project.levels[1].openings[i]].wallId
            = heap[project.levels[1].openings[j]].wallId
       /\ heap[project.levels[1].openings[i]].offsetMm
            > heap[project.levels[1].openings[j]].offsetMm

(***************************************************************************)
(* Editing and validating: one command on a valid project, driven          *)
(* directly, with validateProject called at any point.                     *)
(***************************************************************************)
\* projects without an error issue, except that the second has two walls of
\* one id and the third an opening whose wall is on the other level
EditProjects ==
  { << Level(<< Wall("w1", P0, P1, 200, 2700), Wall("w2", P0, P2, 200, 2700) >>,
             << Opening("o1", "w1", "door", 1000, 900, 2100, 0),
                Opening("o2", "w1", "window", 3000, 1200, 1200, 900),
                Opening("o3", "w2", "window", 1000, 1200, 1200, 900) >>) >>,
    << Level(<< Wall("w1", P0, P1, 200, 2700), Wall("w1", P0, P2, 200, 2700) >>,
             << Opening("o1", "w1", "door", 1000, 900, 2100, 0) >>) >>,
    << Level(<< Wall("w1", P0, P1, 200, 2700) >>,
             << Opening("o1", "w1", "door", 1000, 900, 2100, 0) >>),
       LevelOf("l2", << Wall("w3", P0, P2, 200, 2700) >>,
               << Opening("o4", "w1", "window", 1000, 1200, 1200, 900) >>) >> }

\* offsets a drag can produce: before the wall's start, up to its end, past it
EditOffsets == {-100, 2500, 4100, 4200}

EditUpdates == { [widthMm |-> 5000], [offsetMm |-> -100, widthMm |-> 900] }

InitEdit ==
  \E d \in EditProjects :
    /\ heap = Load(d).heap
    /\ project = Load(d).project
    /\ history = <<>>
    /\ currentIndex = -1
    /\ maxSize = MaxMaxSize
    /\ pending = <<>>
    /\ nextCid = 1
    /\ lastOp = Op("init", FALSE, <<>>, FALSE)
    /\ discarded = {}
    /\ law = Free
    /\ cmdPc = "idle"
    /\ pre = NoSnap
    /\ store = initialState

NextEdit ==
  \/ new_RemoveWallCommand(WallIds, pending = <<>>)
  \/ new_MoveOpeningCommand({"o1", "o2"}, EditOffsets, pending = <<>>)
  \/ new_UpdateOpeningCommand({"o1"}, EditUpdates, pending = <<>>)
  \/ command_execute
  \/ command_undo
  \/ call_validateProject
  \/ call_deriveOpeningsGeometry

SpecEdit == InitEdit /\ [][NextEdit]_vars

\* the openings of the removed wall's level that name the removed wall
Orphans ==
  LET openings == project.levels[TheCmd.levelIndex + 1].openings
  IN {i \in DOMAIN openings : heap[openings[i]].wallId = heap[TheCmd.entity].id}

OrphanIds ==
  {heap[project.levels[TheCmd.levelIndex + 1].openings[i]].id : i \in Orphans}

\* the WALL_NOT_FOUND errors among the issues that name one of the ids
NotFoundFor(issues, ids) ==
  {k \in DOMAIN issues :
     /\ issues[k].code = "WALL_NOT_FOUND" /\ issues[k].severity = "error"
     /\ issues[k].entityId \in ids}

\* the wall a RemoveWallCommand removed was the only one of its level with its id
OnlyWallOfItsId ==
  \A i \in DOMAIN pre.project.levels[TheCmd.levelIndex + 1].walls :
    LET r == pre.project.levels[TheCmd.levelIndex + 1].walls[i]
    IN r # TheCmd.entity => pre.heap[r].id # pre.heap[TheCmd.entity].id

RemovedWall(pc) == cmdPc = pc /\ TheCmd.kind = "RemoveWall"

\* C12 as stated: executing a RemoveWallCommand leaves the level's openings
\* array as it was; validateProject then returns exactly one WALL_NOT_FOUND
\* error for each opening that names the removed wall; after undo() of the
\* command validateProject returns none of them.
C12_Original ==
  /\ [](RemovedWall("executed") =>
          project.levels[TheCmd.levelIndex + 1].openings
            = pre.project.levels[TheCmd.levelIndex + 1].openings)
  /\ [][ /\ (RemovedWall("executed") /\ Step("validateProject")) =>
              Cardinality(NotFoundFor(lastOp'.issues, OrphanIds)) = Cardinality(Orphans)
         /\ (RemovedWall("undone") /\ Step("validateProject")) =>
              NotFoundFor(lastOp'.issues, OrphanIds) = {}
       ]_vars

\* C12 amended: the same, the WALL_NOT_FOUND errors being promised only when
\* no other wall of the level carries the removed wall's id.
C12_NoCascade ==
  /\ [](RemovedWall("executed") =>
          project.levels[TheCmd.levelIndex + 1].openings
            = pre.project.levels[TheCmd.levelIndex + 1].openings)
  /\ [][ /\ (RemovedWall("executed") /\ OnlyWallOfItsId /\ Step("validateProject")) =>
              Cardinality(NotFoundFor(lastOp'.issues, OrphanIds)) = Cardinality(Orphans)
         /\ (RemovedWall("undone") /\ Step("validateProject")) =>
              NotFoundFor(lastOp'.issues, OrphanIds) = {}
       ]_vars

\* the wall of two openings has been removed and validateProject has reported
\* both of them
C12_Witness ==
  /\ RemovedWall("executed") /\ OnlyWallOfItsId /\ Cardinality(Orphans) = 2
  /\ lastOp.op = "validateProject"
  /\ Cardinality(NotFoundFor(lastOp.issues, OrphanIds)) = 2

\* the removal has been undone and validateProject reports neither of them
C12_WitnessUndone ==
  /\ RemovedWall("undone") /\ Cardinality(Orphans) = 2
  /\ lastOp.op = "validateProject" /\ ~hasErrors(lastOp.issues)

\* the wall the opening resolves to within its level, as walls.find does
ResolvedWall(level, o) ==
  LET hits == {i \in DOMAIN level.walls : level.walls[i].id = o.wallId}
  IN IF hits = {} THEN << >>
     ELSE << level.walls[CHOOSE i \in hits : \A j \in hits : i <= j] >>

\* the interval [offsetMm, offsetMm + widthMm] does not lie within
\* [0, length of the wall]
OutsideWall(o, wall) ==
  \/ o.offsetMm < 0
  \/ o.offsetMm + o.widthMm < 0
  \/ Beyond(o.offsetMm, wall)
  \/ Beyond(o.offsetMm + o.widthMm, wall)

ErrorsFor(issues, id) ==
  {k \in DOMAIN issues : issues[k].severity = "error" /\ issues[k].entityId = id}

\* C14 as stated: in every project reached through commands, an opening whose
\* wall resolves and whose interval does not lie within [0, wallLength] gets
\* an error issue from validateProject.
C14_Original ==
  [][Step("validateProject") =>
       \A l \in DOMAIN Deep(heap, project) :
         LET level == Deep(heap, project)[l]
         IN \A i \in DOMAIN level.openings :
              LET o == level.openings[i]
                  w == ResolvedWall(level, o)
              IN (w # << >> /\ OutsideWall(o, w[1])) =>
                   ErrorsFor(lastOp'.issues, o.id) # {}
    ]_vars

\* what holds: an opening whose wall resolves and whose end lies beyond the
\* wall's length gets an OPENING_EXCEEDS_WALL error from validateProject.
C14_EndBeyondWall ==
  [][Step("validateProject") =>
       \A l \in DOMAIN Deep(heap, project) :
         LET level == Deep(heap, project)[l]
         IN \A i \in DOMAIN level.openings :
              LET o == level.openings[i]
                  w == ResolvedWall(level, o)
              IN (w # << >> /\ Beyond(o.offsetMm + o.widthMm, w[1])) =>
                   \E k \in ErrorsFor(lastOp'.issues, o.id) :
                     lastOp'.issues[k].code = "OPENING_EXCEEDS_WALL"
    ]_vars

\* a command has put an opening's end beyond its wall and validateProject has
\* reported it
C14_WitnessEndBeyond ==
  /\ cmdPc = "executed" /\ TheCmd.kind \in {"MoveOpening", "UpdateOpening"}
  /\ lastOp.op = "validateProject"
  /\ \E k \in DOMAIN lastOp.issues : lastOp.issues[k].code = "OPENING_EXCEEDS_WALL"

\* the level deriveOpeningsGeometry was called on is the command's level
OnCmdLevel == lastOp'.arg = DeepLevel(heap, project.levels[TheCmd.levelIndex + 1])

\* the openings of the level for which validateOpeningFitsWall reports
\* WALL_NOT_FOUND
Unresolved(level) ==
  {i \in DOMAIN level.openings :
     Codes(validateOpeningFitsWall(level.openings[i], level.walls)) = {"WALL_NOT_FOUND"}}

\* what deriveOpeningsGeometry does on its own: it throws exactly when an
\* opening is unresolved, with no result, and otherwise returns the geometry
\* of every opening on its (first) wall, in input order
DerivesOrThrows ==
  Step("deriveOpeningsGeometry") =>
    LET level == lastOp'.arg
    IN /\ lastOp'.threw <=> Unresolved(level) # {}
       /\ lastOp'.threw => lastOp'.result = << >>
       /\ ~lastOp'.threw =>
            /\ Len(lastOp'.result) = Len(level.openings)
            /\ \A i \in DOMAIN level.openings :
                 lastOp'.result[i] =
                   deriveOpeningGeometry(level.openings[i],
                                         FirstWall(level.walls, level.openings[i].wallId))

C21_WitnessUndone ==
  /\ RemovedWall("undone") /\ Cardinality(Orphans) = 2
  /\ lastOp.op = "deriveOpeningsGeometry" /\ ~lastOp.threw
  /\ Len(lastOp.result) = 3

\* deriveOpeningsGeometry on its own, over the input families of the validator
C21_DerivesOrThrows == [][DerivesOrThrows]_vars

(***************************************************************************)
(* Properties of the geometry derivation (specification SpecVal).          *)
(***************************************************************************)
Corners(r) == {r.topLeft, r.topRight, r.bottomRight, r.bottomLeft}

\* the coordinates of a derived point
XY(pt) == {pt.x, pt.y}

ZeroLength(wall) == wall.a = wall.b

\* C22: on a wall with a = b, deriveWallGeometry returns an outline whose four
\* points all equal a, and deriveOpeningGeometry a rectangle whose four
\* corners and position all equal a, whatever offsetMm and widthMm are; no
\* derived coordinate of any wall or opening is NaN.
C22_ZeroLengthWall ==
  [][ /\ Step("deriveWallsGeometry") =>
           \A i \in DOMAIN lastOp'.arg :
             LET wall == lastOp'.arg[i]
                 points == lastOp'.result[i].outline.points
             IN /\ Len(points) = 4
                /\ \A k \in 1..4 : NaN \notin XY(points[k])
                /\ ZeroLength(wall) => \A k \in 1..4 : points[k] = Fixed(wall.a)
      /\ (Step("deriveOpeningsGeometry") /\ ~lastOp'.threw) =>
           \A i \in DOMAIN lastOp'.arg.openings :
             LET o == lastOp'.arg.openings[i]
                 wall == FirstWall(lastOp'.arg.walls, o.wallId)
                 g == lastOp'.result[i]
             IN /\ \A c \in Corners(g.rectangle) \cup {g.position} : NaN \notin XY(c)
                /\ ZeroLength(wall) =>
                     Corners(g.rectangle) \cup {g.position} = {Fixed(wall.a)}
    ]_vars

\* the geometry of an opening with a negative offset on a wall of length 0
\* has been derived
C22_Witness ==
  /\ lastOp.op = "deriveOpeningsGeometry" /\ ~lastOp.threw
  /\ \E i \in DOMAIN lastOp.arg.openings :
       /\ ZeroLength(FirstWall(lastOp.arg.walls, lastOp.arg.openings[i].wallId))
       /\ lastOp.arg.openings[i].offsetMm < 0
       /\ lastOp.arg.openings[i].widthMm > 0
       /\ lastOp.result[i].position = Fixed(Point(10, 20))

\* the outline of a wall of length 0 has been derived
C22_WitnessWall ==
  /\ lastOp.op = "deriveWallsGeometry"
  /\ \E i \in DOMAIN lastOp.arg :
       ZeroLength(lastOp.arg[i]) /\ lastOp.result[i].outline.points[3] = Fixed(lastOp.arg[i].a)

(***************************************************************************)
(* The schema against the validator (specification SpecVal).               *)
(***************************************************************************)
\* C23 as stated: a project for which validateProject returns the empty list
\* is parsed by validateProjectSchema from its JSON text without a throw,
\* and the parsed project deep-equals it.
C23_Original ==
  [][(Step("validateProjectSchema") /\ validateProject(heap, project).issues = << >>) =>
       ~lastOp'.threw /\ lastOp'.result = lastOp'.arg
    ]_vars

\* what holds: when the parser does not throw, the parsed project deep-equals
\* the one written (in the fields modelled).
C23_ParsedEqualsWritten ==
  [][(Step("validateProjectSchema") /\ ~lastOp'.threw) => lastOp'.result = lastOp'.arg]_vars

\* a project with openings and without a validation issue has been parsed
C23_WitnessParsed ==
  /\ lastOp.op = "validateProjectSchema" /\ ~lastOp.threw
  /\ validateProject(heap, project).issues = << >>
  /\ \E l \in DOMAIN lastOp.result : Len(lastOp.result[l].openings) >= 2

(***************************************************************************)
(* The validator against the editing session (specification Spec).         *)
(***************************************************************************)
\* C24 as stated: a session that starts from a project without a validation
\* error never holds a project with one, whatever commands are executed,
\* undone and redone through the CommandHistory.
C24_Original == ~hasErrors(validateProject(heap, project).issues)

(***************************************************************************)
(* Eviction in the undo-N / redo-N scenario (specification SpecLaw).       *)
(***************************************************************************)
\* in the undo phase of a scenario of more executions than the history holds,
\* the first maxSize undo() return true and the following ones false
UndoCount ==
  (law.phase = "undo" /\ law.n > maxSize /\ Step("undo")) =>
     (lastOp'.ret <=> law.k < maxSize)

\* the undo phase of such a scenario has just ended
UndoneAll ==
  /\ law.phase = "redo" /\ law.k = 0 /\ lastOp.op = "undo"
  /\ law.n > maxSize

\* C26 as stated: after N > maxSize executions with no undo in between,
\* exactly maxSize undo() return true and the next returns false, and the
\* Project then equals the Project reached after the first N - maxSize
\* executions.
C26_Original ==
  /\ [][UndoCount]_vars
  /\ [](UndoneAll => Deep(heap, project) = law.manager.history[law.n - maxSize + 1])

\* what holds: the count of the undo() that return true, the cursor ending
\* before the first command, and no method of an evicted command being called.
C26_UndoCount ==
  /\ [][UndoCount]_vars
  /\ [](UndoneAll => (currentIndex = -1 /\ size(history) = maxSize))
  /\ [][\A i \in DOMAIN lastOp'.calls :
          (lastOp'.op \in {"undo", "redo"}) => lastOp'.calls[i][1] \notin discarded]_vars

\* three executions on a history of two, then three undo(): the last one
\* returned false
C26_WitnessUndoCount ==
  /\ UndoneAll /\ law.n = 3 /\ maxSize = 2 /\ ~lastOp.ret /\ discarded # {}

(***************************************************************************)
(* The history against the snapshot history (specification Spec).          *)
(***************************************************************************)
\* every executed command was constructed on the current Project just before
\* its execution, clear() was not called, and no more commands were executed
\* than the history holds
InScenario == ~law.strayed /\ law.n <= maxSize

\* C27 as stated: in such a run, after any interleaving of execute, undo and
\* redo, the cursors agree and the Project deep-equals the snapshot the
\* history of whole Projects holds at its cursor.
C27_Original ==
  InScenario =>
    /\ law.manager.index = currentIndex + 1
    /\ Deep(heap, project) = law.manager.history[law.manager.index + 1]

\* what holds: the cursors and the lengths of the two histories agree.
C27_SameCursor ==
  InScenario =>
    /\ law.manager.index = currentIndex + 1
    /\ Len(law.manager.history) = size(history) + 1

\* two commands executed, one undone: both histories stand on their middle
C27_WitnessSameCursor ==
  /\ InScenario /\ law.n = 2 /\ currentIndex = 0 /\ size(history) = 2
  /\ lastOp.op = "undo"

(***************************************************************************)
(* A history of commands that may throw: any implementation of the Command *)
(* interface beside the library's AddWallCommand.                          *)
(***************************************************************************)
NextFault ==
  \/ new_ThrowingCommand(pending = <<>>)
  \/ new_AddWallCommand(SessionWalls, pending = <<>>)
  \/ execute
  \/ undo
  \/ redo

SpecFault == Init /\ [][NextFault]_vars

FailedStep(name) == Step(name) /\ lastOp'.threw

\* C28 as stated: when the command's execute(), undo() or redo() throws, the
\* history list and currentIndex are what they were before the call.
C28_Original ==
  [][(FailedStep("execute") \/ FailedStep("undo") \/ FailedStep("redo")) =>
       (history' = history /\ currentIndex' = currentIndex)]_vars

\* what holds: it is so for execute and undo; a redo() whose command throws
\* leaves the list as it was and the cursor one further, on that command.
C28_FailedCalls ==
  [][ /\ (FailedStep("execute") \/ FailedStep("undo")) =>
           (history' = history /\ currentIndex' = currentIndex)
      /\ FailedStep("redo") =>
           (history' = history /\ currentIndex' = currentIndex + 1)
      /\ (FailedStep("execute") \/ FailedStep("undo") \/ FailedStep("redo")) =>
           Deep(heap', project') = Deep(heap, project)
    ]_vars

\* an undo() failed on the second of two commands
C28_WitnessFailedUndo ==
  lastOp.op = "undo" /\ lastOp.threw /\ currentIndex = 1 /\ size(history) = 2

\* a redo() failed and left the cursor on the command
C28_WitnessFailedRedo ==
  /\ lastOp.op = "redo" /\ lastOp.threw
  /\ history[currentIndex + 1].cid = lastOp.calls[1][1]

(***************************************************************************)
(* The editor: FloorPlanEditor's click and key handlers and the store's    *)
(* actions, on the singleton commandHistory.  A handler runs to its end.   *)
(***************************************************************************)
MaxEntities == 3   \* entity objects the editor loads or creates
MaxEdits == 2      \* command objects the handlers construct

MAX_HISTORY_SIZE == 50

EditorTools == {"select", "draw-wall", "add-door", "add-window"}

\* the grid points a click snaps to
GridPoints == {P0, P1}

\* where along a wall a click lands
ClickOffsets == {0, 1000}

\* `w${Date.now()}`, `o${Date.now()}` and createId(): a name not given before
\* (two clicks fall in different milliseconds)
FreshId(letter) == letter \o ToString(100 + Len(heap))

\* commandHistory.execute(command) inside a handler that leaves the store as
\* state; h is the heap holding the command's own entity
Dispatch(name, c, h, state) ==
  LET st == Command_execute(c, h, project)
      nh == CommandHistory_execute(history, currentIndex, maxSize, c)
  IN /\ heap' = st.heap
     /\ project' = st.project
     /\ history' = nh.history
     /\ currentIndex' = nh.currentIndex
     /\ discarded' = discarded \cup ((Cids(history) \cup {c.cid}) \ Cids(nh.history))
     /\ nextCid' = nextCid + 1
     /\ lastOp' = Op(name, FALSE, <<Call(c, "execute")>>, FALSE)
     /\ store' = state
     /\ UNCHANGED <<maxSize, pending, law, cmdPc, pre>>

\* a handler or store action that touches the store only
Stored(name, arg, state) ==
  /\ store' = state
  /\ lastOp' = [Op(name, FALSE, << >>, FALSE) EXCEPT !.arg = arg]
  /\ UNCHANGED <<heap, project, histVars, pending, nextCid, law, cmdPc, pre>>

\* handleStageClick with the draw-wall tool: the first click sets the start
\* point, the second adds the wall
handleStageClick_drawWall ==
  \E snappedPos \in GridPoints :
    /\ store.currentTool = "draw-wall"
    /\ IF store.drawingStartPoint = Null
       THEN Stored("handleStageClick", snappedPos, setDrawingStartPoint(store, snappedPos))
       ELSE LET newWall == Wall(FreshId("w"), store.drawingStartPoint, snappedPos,
                                store.wallThickness, 2700)
                h == Append(heap, newWall)
            IN /\ nextCid <= MaxEdits /\ Len(heap) < MaxEntities
               /\ Dispatch("handleStageClick",
                           AddWallCommand(nextCid, Len(h), h, project, 0).cmd, h,
                           setDrawingStartPoint(store, Null))

\* handleStageClick with the add-door or add-window tool, on a wall that has
\* a length
handleStageClick_addOpening ==
  \E i \in DOMAIN project.levels[1].walls, offsetMm \in ClickOffsets :
    LET wall == heap[project.levels[1].walls[i]]
        door == store.currentTool = "add-door"
        newOpening == Opening(FreshId("o"), wall.id, IF door THEN "door" ELSE "window",
                              offsetMm, store.openingWidth,
                              IF door THEN 2100 ELSE 1200, IF door THEN 0 ELSE 900)
        h == Append(heap, newOpening)
    IN /\ store.currentTool \in {"add-door", "add-window"}
       /\ wall.a # wall.b
       /\ nextCid <= MaxEdits /\ Len(heap) < MaxEntities
       /\ Dispatch("handleStageClick",
                   AddOpeningCommand(nextCid, Len(h), h, project, 0).cmd, h, store)

\* handleStageClick with the select tool: on a wall, on an opening whose wall
\* is there, or on empty space
handleStageClick_select ==
  LET level == DeepLevel(heap, project.levels[1])
  IN /\ store.currentTool = "select"
     /\ \/ \E i \in DOMAIN level.walls :
             Stored("handleStageClick", level.walls[i].id,
                    selectElement(store, SelectedElement("wall", level.walls[i].id, 0)))
        \/ \E j \in DOMAIN level.openings :
             /\ FoundIn(level.walls, level.openings[j].wallId) # Undefined
             /\ Stored("handleStageClick", level.openings[j].id,
                       selectElement(store,
                                     SelectedElement("opening", level.openings[j].id, 0)))
        \/ Stored("handleStageClick", "", selectElement(store, Null))

\* handleKeyDown, Delete or Backspace with a selection: the constructor of the
\* Remove command throws when the id is not in the level
handleKeyDown_Delete ==
  LET sel == store.selectedElement
      r == IF sel.type = "wall"
           THEN RemoveWallCommand(nextCid, sel.id, heap, project, sel.levelIndex)
           ELSE RemoveOpeningCommand(nextCid, sel.id, heap, project, sel.levelIndex)
  IN /\ Truthy(sel)
     /\ nextCid <= MaxEdits
     /\ IF r.threw
        THEN /\ lastOp' = Op("handleKeyDown", FALSE, << >>, TRUE)
             /\ UNCHANGED <<heap, project, histVars, pending, nextCid, law, cmdVars>>
        ELSE Dispatch("handleKeyDown", r.cmd, heap, selectElement(store, Null))

\* handleKeyDown, Escape
handleKeyDown_Escape ==
  /\ store.drawingStartPoint # Null
  /\ Stored("handleKeyDown", "Escape", setDrawingStartPoint(store, Null))

\* the toolbar: setCurrentTool(tool)
call_setCurrentTool ==
  \E tool \in EditorTools : Stored("setCurrentTool", tool, setCurrentTool(store, tool))

call_copySelected ==
  Stored("copySelected", "", copySelected(store, Deep(heap, project)))

\* pasteFromClipboard and duplicateSelected
StoreGrows(name, r) ==
  /\ Len(heap) < MaxEntities
  /\ heap' = r.heap
  /\ project' = r.project
  /\ store' = r.state
  /\ lastOp' = Op(name, FALSE, << >>, FALSE)
  /\ UNCHANGED <<histVars, pending, nextCid, law, cmdPc, pre>>

call_pasteFromClipboard ==
  /\ store.clipboard # Null
  /\ StoreGrows("pasteFromClipboard", pasteFromClipboard(store, heap, project, FreshId("c")))

call_duplicateSelected ==
  /\ Truthy(store.selectedElement)
  /\ StoreGrows("duplicateSelected", duplicateSelected(store, heap, project, FreshId("c")))

\* the editor opened on a project: setProject(initialProject)
InitEditor ==
  \E d \in SessionProjects :
    /\ heap = Load(d).heap
    /\ project = Load(d).project
    /\ history = <<>>
    /\ currentIndex = -1
    /\ maxSize = MAX_HISTORY_SIZE
    /\ pending = <<>>
    /\ nextCid = 1
    /\ lastOp = Op("init", FALSE, <<>>, FALSE)
    /\ discarded = {}
    /\ law = Free
    /\ cmdPc = "idle"
    /\ pre = NoSnap
    /\ store = initialState

\* Ctrl+Z and Ctrl+Shift+Z / Ctrl+Y are commandHistory.undo() and redo()
NextEditor ==
  \/ handleStageClick_drawWall
  \/ handleStageClick_addOpening
  \/ handleStageClick_select
  \/ handleKeyDown_Delete
  \/ handleKeyDown_Escape
  \/ undo
  \/ redo
  \/ call_setCurrentTool
  \/ call_copySelected
  \/ call_pasteFromClipboard
  \/ call_duplicateSelected

SpecEditor == InitEditor /\ [][NextEditor]_vars

\* both null, both undefined, or the same selection
SameSelection(a, b) == a = b \/ (~Truthy(a) /\ ~Truthy(b))

\* C30 as stated: setCurrentTool(tool) sets currentTool to tool and clears
\* drawingStartPoint; selectedElement becomes null when tool is not 'select'
\* and stays what it was when tool is 'select'; the Project and the other
\* settings do not change.  (null and undefined count as the same selection.)
C30_Original ==
  [][Step("setCurrentTool") =>
       /\ store'.currentTool = lastOp'.arg
       /\ store'.drawingStartPoint = Null
       /\ lastOp'.arg # "select" => ~Truthy(store'.selectedElement)
       /\ lastOp'.arg = "select" =>
            SameSelection(store'.selectedElement, store.selectedElement)
       /\ \A f \in {"wallThickness", "openingWidth", "nextOpeningType", "clipboard"} :
            store'[f] = store[f]
       /\ heap' = heap /\ project' = project]_vars

\* C25 as stated: a step that changes the walls or openings of a level of the
\* store's Project is a call of a command's execute(), undo() or redo() made
\* by CommandHistory; no store action changes them by itself.
C25_Original ==
  [][Deep(heap', project') # Deep(heap, project) => lastOp'.calls # << >>]_vars

\* the selection names a wall or an opening of project.levels[levelIndex]
SelectionExists ==
  LET sel == store.selectedElement
  IN Truthy(sel) =>
       /\ HasLevel(project, sel.levelIndex)
       /\ FoundIn(IF sel.type = "wall"
                  THEN DeepLevel(heap, project.levels[sel.levelIndex + 1]).walls
                  ELSE DeepLevel(heap, project.levels[sel.levelIndex + 1]).openings,
                  sel.id) # Undefined

\* C29 as stated: a selectedElement that is not null names a wall or an
\* opening that is in project.levels[levelIndex], and the Delete / Backspace
\* handler never throws (it never constructs a Remove command for an id that
\* is not there).
C29_Original ==
  /\ SelectionExists
  /\ ~(lastOp.op = "handleKeyDown" /\ lastOp.threw)

====
